---- MODULE Spec2Model ----
(***************************************************************************)
(* Model of the company-performance service.                               *)
(*                                                                         *)
(* Part 1: KVCacheManager (src/src/cache/cache-manager.ts, the SWR         *)
(* version, lines 98-331): a two-tier cache, an in-process Map in front    *)
(* of a durable key-value namespace, with stale-while-revalidate reads.    *)
(*                                                                         *)
(* The program is single threaded; every `await` on the durable store or   *)
(* on the fetcher is a suspension point.  One action of the model is one   *)
(* run-to-completion segment of a handler between two suspension points.   *)
(* Time is Date.now() in milliseconds and advances in steps of TickMs.     *)
(*                                                                         *)
(* Part 2: the route handlers (src/src/routes/api.ts), each of which       *)
(* constructs its own manager in front of the shared namespace.            *)
(*                                                                         *)
(* Part 3: the pure functions of the processors and of the search service  *)
(* (financial-processor.ts, ratio-calculator.ts, SearchService): operators *)
(* applied by one action to an input drawn in the initial state.           *)
(***************************************************************************)
EXTENDS Integers, Sequences, FiniteSets, TLC

VARIABLES
    now,               \* Date.now(), milliseconds
    kv,                \* this.kv is bound (TRUE) or null (FALSE)
    kvStore,           \* contents of the durable namespace: key -> JSON entry
    memoryCache,       \* this.memoryCache: Map<string, CacheEntry>
    revalidatingKeys,  \* this.revalidatingKeys: Set<string>
    pc,                \* per call: the suspension point it is parked at
    op,                \* per call: the method that was invoked
    args,              \* per call: key, value, maxAge/ttlSeconds, staleTime
    entry,             \* per call: the local `entry` / `memEntry` (<<>> is null)
    putting,           \* per call: payload of the kv.put the call awaits
    result,            \* per call: what the method returned (or that it threw)
    bg,                \* per call: the background revalidation it launched
    bgPutting,         \* per call: payload of the kv.put its revalidation awaits
    window,            \* per key: callers served stale since revalidation began
    lastWriter,        \* per key: the call that last wrote memoryCache (0: none)
    swrOptions,        \* per key: the SWROptions its readers pass (SWR_CONFIG)
    req,               \* per request: its handler's position and its own manager
    input,             \* the arguments of the pure function under study
    output,            \* what the function returned (<<>>: not called yet)
    dart               \* the withRetry call of the registry client in progress

vars == << now, kv, kvStore, memoryCache, revalidatingKeys, pc, op, args,
           entry, putting, result, bg, bgPutting, window, lastWriter,
           swrOptions, req, input, output, dart >>

(***************************************************************************)
(* Bounds and constants                                                    *)
(***************************************************************************)
NumCalls == 2
MaxTicks == 3
MsPerSecond == 1000
Undefined == -1

TickMs == MsPerSecond
Calls == 1..NumCalls
NumRequests == 2
Requests == 1..NumRequests
Keys == {"company-info:1"}
Values == {"a", "b"}
RouteValue == "a"
FetchValue == "fetched"
OldValue == "old"
TtlSeconds == {2}
StaleSeconds == {0, 1}

(***************************************************************************)
(* Map<string, T> and JavaScript truthiness                                *)
(***************************************************************************)
MapHas(m, k) == k \in DOMAIN m
MapSet(m, k, e) == [x \in (DOMAIN m) \cup {k} |-> IF x = k THEN e ELSE m[x]]
MapDelete(m, k) == [x \in (DOMAIN m) \ {k} |-> m[x]]
EmptyMap == [x \in {} |-> 0]

\* a number is falsy when it is undefined or 0
Falsy(x) == x = Undefined \/ x = 0
\* a || b on numbers
OrElse(a, b) == IF Falsy(a) THEN b ELSE a

(***************************************************************************)
(* CacheEntry and its JSON form                                            *)
(***************************************************************************)
\* entry.staleTime: undefined when the property is absent
StaleTimeOf(e) == IF "staleTime" \in DOMAIN e THEN e.staleTime ELSE Undefined

\* JSON.stringify drops a property whose value is undefined; kv.get(key,'json')
\* parses the text back into an object without that property
Stringify(e) ==
    IF e.staleTime = Undefined
    THEN [data |-> e.data, timestamp |-> e.timestamp, ttl |-> e.ttl]
    ELSE e

\* the entry `set` builds: timestamp is the write time, seconds become ms,
\* a falsy staleTime (absent or 0) is stored as undefined
NewEntryUnstamped(v, ttlSeconds, staleSeconds) ==
    [data |-> v, timestamp |-> 0, ttl |-> ttlSeconds * MsPerSecond,
     staleTime |-> IF Falsy(staleSeconds) THEN Undefined
                   ELSE staleSeconds * MsPerSecond]

NewEntry(v, ttlSeconds, staleSeconds) ==
    [data |-> v,
     timestamp |-> now,
     ttl |-> ttlSeconds * MsPerSecond,
     staleTime |-> IF Falsy(staleSeconds) THEN Undefined
                   ELSE staleSeconds * MsPerSecond]

\* isExpired(entry)
isExpired(e) == now - e.timestamp > e.ttl

(***************************************************************************)
(* What the catch blocks around the durable store do with a failure        *)
(***************************************************************************)
GetCatch == TRUE
SetCatchMissing == FALSE
SetCatch == TRUE
DeleteCatch == TRUE
GetEntryCatch == TRUE

(***************************************************************************)
(* Results                                                                 *)
(***************************************************************************)
NoArgs == [key |-> "", value |-> "", maxAge |-> 0, staleTime |-> 0]
NoResult == [status |-> "pending", data |-> <<>>, isStale |-> FALSE,
             isValidating |-> FALSE, error |-> FALSE, cacheStatus |-> "none",
             kvFailed |-> FALSE]
Returned(d) == [NoResult EXCEPT !.status = "returned", !.data = d]
Threw == [NoResult EXCEPT !.status = "threw"]
SWRResult(d, stale, validating, err) ==
    [NoResult EXCEPT !.status = "returned", !.data = d, !.isStale = stale,
                     !.isValidating = validating, !.error = err]
StatusResult(s, failed) ==
    [NoResult EXCEPT !.status = "returned", !.cacheStatus = s, !.kvFailed = failed]
\* the same result, of a call during which a durable-store failure was caught
Degraded(r) == [r EXCEPT !.kvFailed = TRUE]

(***************************************************************************)
(* Initial state: a freshly constructed manager (empty Map, empty Set) in  *)
(* front of a namespace that is empty or holds an entry written earlier    *)
(* (by an earlier instance: every request constructs its own manager).     *)
(***************************************************************************)
InitialStores ==
    {EmptyMap} \cup
    { [k \in {key} |-> Stringify([data |-> OldValue, timestamp |-> 0,
                                  ttl |-> t * MsPerSecond,
                                  staleTime |-> IF Falsy(s) THEN Undefined
                                                ELSE s * MsPerSecond])] :
        key \in Keys, t \in TtlSeconds, s \in StaleSeconds }

\* a request that has not arrived: no handler running, no manager constructed
NoRequest == [pc |-> "idle", key |-> "", memoryCache |-> EmptyMap, revalidatingKeys |-> {},
              response |-> "none", arrived |-> Undefined, completed |-> Undefined]

\* no withRetry call is running
NoCall == [pc |-> "idle", attempt |-> 0, attempts |-> 0, lastError |-> <<>>,
           lastReply |-> <<>>, delays |-> <<>>, returned |-> <<>>]

\* the options a resource is read with: maxAge and staleTime in seconds
SWRConfigs == [maxAge : TtlSeconds, staleTime : StaleSeconds]

InitService ==
    /\ now = 0
    /\ kv \in BOOLEAN
    /\ kvStore \in (IF kv THEN InitialStores ELSE {EmptyMap})
    /\ memoryCache = EmptyMap
    /\ revalidatingKeys = {}
    /\ pc = [c \in Calls |-> "idle"]
    /\ op = [c \in Calls |-> "none"]
    /\ args = [c \in Calls |-> NoArgs]
    /\ entry = [c \in Calls |-> <<>>]
    /\ putting = [c \in Calls |-> <<>>]
    /\ result = [c \in Calls |-> NoResult]
    /\ bg = [c \in Calls |-> "none"]
    /\ bgPutting = [c \in Calls |-> <<>>]
    /\ window = [k \in Keys |-> {}]
    /\ lastWriter = [k \in Keys |-> 0]
    /\ swrOptions \in [Keys -> SWRConfigs]
    /\ req = [r \in Requests |-> NoRequest]
    /\ dart = NoCall

\* no pure function is under study
Init ==
    /\ InitService
    /\ input = <<>>
    /\ output = <<>>

\* the service at rest, while a pure function is applied to its arguments
InitAtRest ==
    /\ InitService
    /\ kv = FALSE
    /\ \A k \in Keys : swrOptions[k].staleTime = 0


configVars == << kv, swrOptions >>
requestVars == << req >>
pureVars == << input, output >>
clientVars == << dart >>
callVars == << pc, op, args, entry, putting, result >>
bgVars == << bg, bgPutting, window, revalidatingKeys >>
memVars == << memoryCache, lastWriter >>
storeVars == << kvStore, memoryCache, lastWriter >>
serviceVars == << now, configVars, storeVars, callVars, bgVars, requestVars >>

\* this.memoryCache.set(key, e) / this.memoryCache.delete(key), by call c
WriteMemory(c, k, e) ==
    /\ memoryCache' = MapSet(memoryCache, k, e)
    /\ lastWriter' = [lastWriter EXCEPT ![k] = c]
DeleteMemory(c, k) ==
    /\ memoryCache' = MapDelete(memoryCache, k)
    /\ lastWriter' = [lastWriter EXCEPT ![k] = c]

\* A call at "decide" has its continuation queued as a microtask (the await of
\* getEntry's promise): it runs before any timer or I/O completion is handled.
MicrotaskPending == \E c \in Calls : pc[c] = "decide"

\* Calls are numbered in the order they are issued.
CanIssue(c) == pc[c] = "idle" /\ \A d \in Calls : d < c => pc[d] # "idle"

(***************************************************************************)
(* Environment: the clock, and the namespace's own expiry (expirationTtl)  *)
(***************************************************************************)
Tick ==
    /\ ~MicrotaskPending
    /\ now + TickMs <= MaxTicks * TickMs
    /\ now' = now + TickMs
    /\ UNCHANGED << configVars, requestVars, pureVars, clientVars, storeVars, callVars, bgVars >>

KvEvict(k) ==
    /\ ~MicrotaskPending
    /\ MapHas(kvStore, k)
    /\ now - kvStore[k].timestamp >= kvStore[k].ttl
    /\ kvStore' = MapDelete(kvStore, k)
    /\ UNCHANGED << now, configVars, requestVars, pureVars, clientVars, memVars, callVars, bgVars >>

\* another request's manager (every request constructs its own) completes a
\* set for the key: the shared namespace takes its payload
OtherInstancePut(k, ttlSeconds) ==
    /\ ~MicrotaskPending
    /\ kv
    /\ kvStore' = MapSet(kvStore, k, Stringify(NewEntry(OldValue, ttlSeconds, Undefined)))
    /\ UNCHANGED << now, configVars, requestVars, pureVars, clientVars, memVars, callVars, bgVars >>

(***************************************************************************)
(* get(key)                                                                *)
(***************************************************************************)
MemoryHitAnyAge(k) == MapHas(memoryCache, k)

\* the in-process entry is served when present and not expired (line 168)
MemoryHit(k) == MapHas(memoryCache, k) /\ ~isExpired(memoryCache[k])

\* the durable entry is served when present and not expired (lines 175-177)
DurableHit(k) == MapHas(kvStore, k) /\ ~isExpired(kvStore[k])

Get(c, k) ==
    /\ CanIssue(c)
    /\ op' = [op EXCEPT ![c] = "get"]
    /\ args' = [args EXCEPT ![c] = [NoArgs EXCEPT !.key = k]]
    /\ IF MemoryHit(k)
       THEN /\ pc' = [pc EXCEPT ![c] = "done"]
            /\ entry' = [entry EXCEPT ![c] = << memoryCache[k] >>]
            /\ result' = [result EXCEPT ![c] = Returned(<< memoryCache[k].data >>)]
       ELSE IF kv
       THEN /\ pc' = [pc EXCEPT ![c] = "get_kv"]
            /\ UNCHANGED << entry, result >>
       ELSE /\ pc' = [pc EXCEPT ![c] = "done"]
            /\ result' = [result EXCEPT ![c] = Returned(<<>>)]
            /\ UNCHANGED entry
    /\ UNCHANGED << now, configVars, requestVars, pureVars, clientVars, storeVars, putting, bgVars >>

\* kv.get resolved with the stored JSON (or null)
GetKvReturn(c) ==
    /\ ~MicrotaskPending
    /\ pc[c] = "get_kv"
    /\ LET k == args[c].key IN
       IF DurableHit(k)
       THEN /\ WriteMemory(c, k, kvStore[k])
            /\ entry' = [entry EXCEPT ![c] = << kvStore[k] >>]
            /\ result' = [result EXCEPT ![c] = Returned(<< kvStore[k].data >>)]
       ELSE /\ result' = [result EXCEPT ![c] = Returned(<<>>)]
            /\ UNCHANGED << memVars, entry >>
    /\ pc' = [pc EXCEPT ![c] = "done"]
    /\ UNCHANGED << now, configVars, requestVars, pureVars, clientVars, kvStore, op, args, putting, bgVars >>

\* kv.get rejected
GetKvFail(c) ==
    /\ ~MicrotaskPending
    /\ pc[c] = "get_kv"
    /\ pc' = [pc EXCEPT ![c] = "done"]
    /\ result' = [result EXCEPT ![c] =
                     IF GetCatch THEN Degraded(Returned(<<>>)) ELSE Threw]
    /\ UNCHANGED << now, configVars, requestVars, pureVars, clientVars, storeVars, op, args, entry, putting, bgVars >>

(***************************************************************************)
(* set(key, value, ttlSeconds, staleTime?)                                 *)
(***************************************************************************)
Set(c, k, v, ttlSeconds, staleSeconds) ==
    /\ CanIssue(c)
    /\ op' = [op EXCEPT ![c] = "set"]
    /\ args' = [args EXCEPT ![c] = [key |-> k, value |-> v,
                                    maxAge |-> ttlSeconds, staleTime |-> staleSeconds]]
    /\ LET e == NewEntry(v, ttlSeconds, staleSeconds) IN
       /\ WriteMemory(c, k, e)
       /\ entry' = [entry EXCEPT ![c] = << e >>]
       /\ IF kv
          THEN /\ pc' = [pc EXCEPT ![c] = "set_put"]
               /\ putting' = [putting EXCEPT ![c] = << Stringify(e) >>]
               /\ UNCHANGED result
          ELSE /\ pc' = [pc EXCEPT ![c] = "done"]
               /\ result' = [result EXCEPT ![c] = Returned(<<>>)]
               /\ UNCHANGED putting
    /\ UNCHANGED << now, configVars, requestVars, pureVars, clientVars, kvStore, bgVars >>

\* what getWithSWR returns once its own `set` has returned (line 258)
FetchedResult == SWRResult(<< FetchValue >>, FALSE, FALSE, FALSE)

CatchResultNoFallback(e) == SWRResult(<<>>, FALSE, FALSE, TRUE)

\* what getWithSWR's catch block returns (lines 259-265)
CatchResult(e) ==
    IF e # <<>> THEN SWRResult(<< e[1].data >>, TRUE, FALSE, TRUE)
    ELSE SWRResult(<<>>, FALSE, FALSE, TRUE)

\* kv.put resolved: the namespace now holds the payload
SetPutReturn(c) ==
    /\ ~MicrotaskPending
    /\ pc[c] = "set_put"
    /\ kvStore' = MapSet(kvStore, args[c].key, putting[c][1])
    /\ pc' = [pc EXCEPT ![c] = "done"]
    /\ putting' = [putting EXCEPT ![c] = <<>>]
    /\ result' = [result EXCEPT ![c] =
                     IF op[c] = "set" THEN Returned(<<>>) ELSE FetchedResult]
    /\ UNCHANGED << now, configVars, requestVars, pureVars, clientVars, memVars, op, args, entry, bgVars >>

\* kv.put rejected
SetPutFail(c) ==
    /\ ~MicrotaskPending
    /\ pc[c] = "set_put"
    /\ pc' = [pc EXCEPT ![c] = "done"]
    /\ putting' = [putting EXCEPT ![c] = <<>>]
    /\ result' = [result EXCEPT ![c] =
                     IF op[c] = "set"
                     THEN (IF SetCatch THEN Degraded(Returned(<<>>)) ELSE Threw)
                     ELSE (IF SetCatch THEN Degraded(FetchedResult)
                           ELSE CatchResult(entry[c]))]
    /\ UNCHANGED << now, configVars, requestVars, pureVars, clientVars, storeVars, op, args, entry, bgVars >>

(***************************************************************************)
(* delete(key)                                                             *)
(***************************************************************************)
Delete(c, k) ==
    /\ CanIssue(c)
    /\ op' = [op EXCEPT ![c] = "delete"]
    /\ args' = [args EXCEPT ![c] = [NoArgs EXCEPT !.key = k]]
    /\ DeleteMemory(c, k)
    /\ IF kv
       THEN /\ pc' = [pc EXCEPT ![c] = "delete_kv"]
            /\ UNCHANGED result
       ELSE /\ pc' = [pc EXCEPT ![c] = "done"]
            /\ result' = [result EXCEPT ![c] = Returned(<<>>)]
    /\ UNCHANGED << now, configVars, requestVars, pureVars, clientVars, kvStore, entry, putting, bgVars >>

DeleteKvReturn(c) ==
    /\ ~MicrotaskPending
    /\ pc[c] = "delete_kv"
    /\ kvStore' = MapDelete(kvStore, args[c].key)
    /\ pc' = [pc EXCEPT ![c] = "done"]
    /\ result' = [result EXCEPT ![c] = Returned(<<>>)]
    /\ UNCHANGED << now, configVars, requestVars, pureVars, clientVars, memVars, op, args, entry, putting, bgVars >>

DeleteKvFail(c) ==
    /\ ~MicrotaskPending
    /\ pc[c] = "delete_kv"
    /\ pc' = [pc EXCEPT ![c] = "done"]
    /\ result' = [result EXCEPT ![c] =
                     IF DeleteCatch THEN Degraded(Returned(<<>>)) ELSE Threw]
    /\ UNCHANGED << now, configVars, requestVars, pureVars, clientVars, storeVars, op, args, entry, putting, bgVars >>

(***************************************************************************)
(* getEntry(key): the read that getCacheStatus and getWithSWR start with.  *)
(* An in-process entry is returned whatever its age.  While the call is    *)
(* parked, result.kvFailed remembers a caught durable-store failure.       *)
(***************************************************************************)
GetEntry(c, o, a) ==
    /\ CanIssue(c)
    /\ op' = [op EXCEPT ![c] = o]
    /\ args' = [args EXCEPT ![c] = a]
    /\ IF MapHas(memoryCache, a.key)
       THEN /\ entry' = [entry EXCEPT ![c] = << memoryCache[a.key] >>]
            /\ pc' = [pc EXCEPT ![c] = "decide"]
       ELSE IF kv
       THEN /\ pc' = [pc EXCEPT ![c] = "getEntry_kv"]
            /\ UNCHANGED entry
       ELSE /\ entry' = [entry EXCEPT ![c] = <<>>]
            /\ pc' = [pc EXCEPT ![c] = "decide"]
    /\ UNCHANGED << now, configVars, requestVars, pureVars, clientVars, storeVars, putting, result, bgVars >>

GetEntryKvReturn(c) ==
    /\ ~MicrotaskPending
    /\ pc[c] = "getEntry_kv"
    /\ LET k == args[c].key IN
       IF MapHas(kvStore, k)
       THEN /\ WriteMemory(c, k, kvStore[k])
            /\ entry' = [entry EXCEPT ![c] = << kvStore[k] >>]
       ELSE /\ entry' = [entry EXCEPT ![c] = <<>>]
            /\ UNCHANGED memVars
    /\ pc' = [pc EXCEPT ![c] = "decide"]
    /\ UNCHANGED << now, configVars, requestVars, pureVars, clientVars, kvStore, op, args, putting, result, bgVars >>

GetEntryKvFail(c) ==
    /\ ~MicrotaskPending
    /\ pc[c] = "getEntry_kv"
    /\ IF GetEntryCatch
       THEN /\ entry' = [entry EXCEPT ![c] = <<>>]
            /\ pc' = [pc EXCEPT ![c] = "decide"]
            /\ result' = [result EXCEPT ![c] = Degraded(@)]
       ELSE /\ pc' = [pc EXCEPT ![c] = "done"]
            /\ result' = [result EXCEPT ![c] = Threw]
            /\ UNCHANGED entry
    /\ UNCHANGED << now, configVars, requestVars, pureVars, clientVars, storeVars, op, args, putting, bgVars >>

\* a result returned by a call whose getEntry may have caught a failure
After(c, r) == IF result[c].kvFailed THEN Degraded(r) ELSE r

(***************************************************************************)
(* getCacheStatus(key)                                                     *)
(***************************************************************************)
CacheStatusAtInclusive(e, t) ==
    IF e = <<>> THEN "missing"
    ELSE LET age == t - e[1].timestamp
             stored == StaleTimeOf(e[1])
         IN  IF age >= e[1].ttl THEN "expired"
             ELSE IF (IF Falsy(stored) THEN 2 * age >= e[1].ttl ELSE age >= stored)
                  THEN "stale"
             ELSE "fresh"

\* lines 273-281 at clock reading t, for the entry getEntry returned
\* (<<>> is null); age > ttl / 2 is written 2 * age > ttl
CacheStatusAt(e, t) ==
    IF e = <<>> THEN "missing"
    ELSE LET age == t - e[1].timestamp
             stored == StaleTimeOf(e[1])
         IN  IF age > e[1].ttl THEN "expired"
             ELSE IF (IF Falsy(stored) THEN 2 * age > e[1].ttl ELSE age > stored)
                  THEN "stale"
             ELSE "fresh"

GetCacheStatus(c, k) == GetEntry(c, "getCacheStatus", [NoArgs EXCEPT !.key = k])

GetCacheStatusReturn(c) ==
    /\ pc[c] = "decide"
    /\ op[c] = "getCacheStatus"
    /\ pc' = [pc EXCEPT ![c] = "done"]
    /\ result' = [result EXCEPT ![c] =
                     After(c, StatusResult(CacheStatusAt(entry[c], now), FALSE))]
    /\ UNCHANGED << now, configVars, requestVars, pureVars, clientVars, storeVars, op, args, entry, putting, bgVars >>

(***************************************************************************)
(* getWithSWR(key, fetcher, options)                                       *)
(***************************************************************************)
\* lines 229-234
SWRStaleTime(e, options) == OrElse(StaleTimeOf(e), options.staleTime * MsPerSecond)
SWRMaxAge(e, options) == OrElse(e.ttl, options.maxAge * MsPerSecond)
SWRIsStaleInclusive(e, options) == now - e.timestamp >= SWRStaleTime(e, options)
SWRIsStale(e, options) == now - e.timestamp > SWRStaleTime(e, options)
SWRIsExpired(e, options) == now - e.timestamp > SWRMaxAge(e, options)

\* line 236: the cached entry is served
SWRServes(e, options) == IF e = <<>> THEN FALSE ELSE ~SWRIsExpired(e[1], options)

StartsRevalidationUnguarded(k, isStale) == isStale
MarkRevalidatingForgotten(k) == revalidatingKeys

\* line 246 and the guard at line 309: a revalidation starts for a stale
\* entry unless one is already running for the key
StartsRevalidation(k, isStale) == isStale /\ k \notin revalidatingKeys

\* line 311: this.revalidatingKeys.add(key)
MarkRevalidating(k) == revalidatingKeys \cup {k}

GetWithSWR(c, k) ==
    GetEntry(c, "getWithSWR",
             [NoArgs EXCEPT !.key = k, !.maxAge = swrOptions[k].maxAge,
                            !.staleTime = swrOptions[k].staleTime])

\* entry found and not expired: answer from the cache, revalidate if stale
SWRServeCached(c) ==
    /\ pc[c] = "decide"
    /\ op[c] = "getWithSWR"
    /\ SWRServes(entry[c], args[c])
    /\ LET k == args[c].key
           e == entry[c][1]
           isStale == SWRIsStale(e, args[c])
           starts == StartsRevalidation(k, isStale)
       IN  /\ result' = [result EXCEPT ![c] =
                            After(c, SWRResult(<< e.data >>, isStale, starts, FALSE))]
           /\ window' = [window EXCEPT ![k] = IF isStale THEN @ \cup {c} ELSE @]
           /\ IF starts
              THEN /\ revalidatingKeys' = MarkRevalidating(k)
                   /\ bg' = [bg EXCEPT ![c] = "fetching"]
              ELSE UNCHANGED << revalidatingKeys, bg >>
    /\ pc' = [pc EXCEPT ![c] = "done"]
    /\ UNCHANGED << now, configVars, requestVars, pureVars, clientVars, storeVars, op, args, entry, putting, bgPutting >>

\* no entry, or expired: call the fetcher and wait for it
SWRFetch(c) ==
    /\ pc[c] = "decide"
    /\ op[c] = "getWithSWR"
    /\ ~SWRServes(entry[c], args[c])
    /\ pc' = [pc EXCEPT ![c] = "fetching"]
    /\ UNCHANGED << now, configVars, requestVars, pureVars, clientVars, storeVars, op, args, entry, putting, result, bgVars >>

\* the fetcher resolved: set(key, data, options.maxAge, options.staleTime)
SWRFetchReturn(c) ==
    /\ ~MicrotaskPending
    /\ pc[c] = "fetching"
    /\ LET e == NewEntry(FetchValue, args[c].maxAge, args[c].staleTime) IN
       /\ WriteMemory(c, args[c].key, e)
       /\ IF kv
          THEN /\ pc' = [pc EXCEPT ![c] = "set_put"]
               /\ putting' = [putting EXCEPT ![c] = << Stringify(e) >>]
               /\ UNCHANGED result
          ELSE /\ pc' = [pc EXCEPT ![c] = "done"]
               /\ result' = [result EXCEPT ![c] = FetchedResult]
               /\ UNCHANGED putting
    /\ UNCHANGED << now, configVars, requestVars, pureVars, clientVars, kvStore, op, args, entry, bgVars >>

\* the fetcher rejected: the catch block
SWRFetchFail(c) ==
    /\ ~MicrotaskPending
    /\ pc[c] = "fetching"
    /\ pc' = [pc EXCEPT ![c] = "done"]
    /\ result' = [result EXCEPT ![c] = CatchResult(entry[c])]
    /\ UNCHANGED << now, configVars, requestVars, pureVars, clientVars, storeVars, op, args, entry, putting, bgVars >>

(***************************************************************************)
(* revalidateInBackground(key, fetcher, options)                           *)
(***************************************************************************)
\* a finally block that leaves the key in the set
EndRevalidationSkipped(c) ==
    /\ revalidatingKeys' = revalidatingKeys
    /\ window' = window

\* the finally block
EndRevalidation(c) ==
    /\ revalidatingKeys' = revalidatingKeys \ {args[c].key}
    /\ window' = [window EXCEPT ![args[c].key] = {}]

OnRevalidationFailurePurge(m, k) == MapDelete(m, k)

\* what the catch block (lines 316-318) leaves in the in-process tier
OnRevalidationFailure(m, k) == m

RevalidateFetchReturn(c) ==
    /\ ~MicrotaskPending
    /\ bg[c] = "fetching"
    /\ LET e == NewEntry(FetchValue, args[c].maxAge, args[c].staleTime) IN
       /\ WriteMemory(c, args[c].key, e)
       /\ IF kv
          THEN /\ bg' = [bg EXCEPT ![c] = "set_put"]
               /\ bgPutting' = [bgPutting EXCEPT ![c] = << Stringify(e) >>]
               /\ UNCHANGED << revalidatingKeys, window >>
          ELSE /\ bg' = [bg EXCEPT ![c] = "done"]
               /\ EndRevalidation(c)
               /\ UNCHANGED bgPutting
    /\ UNCHANGED << now, configVars, requestVars, pureVars, clientVars, kvStore, callVars >>

RevalidateFetchFail(c) ==
    /\ ~MicrotaskPending
    /\ bg[c] = "fetching"
    /\ bg' = [bg EXCEPT ![c] = "failed"]
    /\ memoryCache' = OnRevalidationFailure(memoryCache, args[c].key)
    /\ EndRevalidation(c)
    /\ UNCHANGED << now, configVars, requestVars, pureVars, clientVars, kvStore, lastWriter, callVars, bgPutting >>

RevalidatePutReturn(c) ==
    /\ ~MicrotaskPending
    /\ bg[c] = "set_put"
    /\ kvStore' = MapSet(kvStore, args[c].key, bgPutting[c][1])
    /\ bg' = [bg EXCEPT ![c] = "done"]
    /\ bgPutting' = [bgPutting EXCEPT ![c] = <<>>]
    /\ EndRevalidation(c)
    /\ UNCHANGED << now, configVars, requestVars, pureVars, clientVars, memVars, callVars >>

RevalidatePutFail(c) ==
    /\ ~MicrotaskPending
    /\ bg[c] = "set_put"
    /\ bg' = [bg EXCEPT ![c] = "done"]
    /\ bgPutting' = [bgPutting EXCEPT ![c] = <<>>]
    /\ EndRevalidation(c)
    /\ UNCHANGED << now, configVars, requestVars, pureVars, clientVars, storeVars, callVars >>

(***************************************************************************)
(* GET /companies/:corpCode (src/src/routes/api.ts, lines 56-85): every    *)
(* request constructs its own KVCacheManager in front of the namespace.    *)
(***************************************************************************)
\* Requests are numbered in the order they arrive.
CanArrive(r) ==
    req[r].pc = "idle" /\ \A q \in Requests : q < r => req[q].pc # "idle"

\* the manager a request's handler reads and writes: the one createCacheManager
\* returned to it (lines 58, 329-331)
ManagerOf(r) == req[r].memoryCache

\* the handler has responded
Respond(r, rec, how) ==
    req' = [req EXCEPT ![r] = [rec EXCEPT !.pc = "done", !.response = how,
                                          !.completed = now]]

\* lines 57-63: new manager (empty Map, empty Set), then cache.get(cacheKey):
\* the in-process tier of the new manager has no entry, so the durable tier
\* is read when a namespace is bound, and the cache missed when none is
RequestArrives(r, k) ==
    /\ CanArrive(r)
    /\ req' = [req EXCEPT ![r] =
                  [NoRequest EXCEPT !.key = k, !.arrived = now,
                                    !.pc = IF kv THEN "get_kv" ELSE "fetching"]]
    /\ UNCHANGED << now, configVars, storeVars, callVars, bgVars, pureVars, clientVars >>

\* kv.get resolved (cache-manager.ts lines 174-180, api.ts lines 65-67)
RequestKvReturn(r) ==
    /\ req[r].pc = "get_kv"
    /\ LET k == req[r].key IN
       IF DurableHit(k)
       THEN Respond(r, [req[r] EXCEPT !.memoryCache = MapSet(ManagerOf(r), k, kvStore[k])],
                    "cached")
       ELSE req' = [req EXCEPT ![r].pc = "fetching"]
    /\ UNCHANGED << now, configVars, storeVars, callVars, bgVars, pureVars, clientVars >>

\* kv.get rejected: get returns null (cache-manager.ts line 182)
RequestKvFail(r) ==
    /\ req[r].pc = "get_kv"
    /\ req' = [req EXCEPT ![r].pc = "fetching"]
    /\ UNCHANGED << now, configVars, storeVars, callVars, bgVars, pureVars, clientVars >>

\* lines 69-79: the registry answered; cache.set(cacheKey, response, ttl)
\* writes the request's own in-process tier and starts kv.put
RequestFetchReturn(r, ttlSeconds) ==
    /\ req[r].pc = "fetching"
    /\ LET e == NewEntry(RouteValue, ttlSeconds, Undefined)
           rec == [req[r] EXCEPT !.memoryCache = MapSet(ManagerOf(r), req[r].key, e)]
       IN  IF kv THEN req' = [req EXCEPT ![r] = [rec EXCEPT !.pc = "set_put"]]
           ELSE Respond(r, rec, "fetched")
    /\ UNCHANGED << now, configVars, storeVars, callVars, bgVars, pureVars, clientVars >>

\* lines 81-84: the registry call threw; the handler answers 500
RequestFetchFail(r) ==
    /\ req[r].pc = "fetching"
    /\ Respond(r, req[r], "error")
    /\ UNCHANGED << now, configVars, storeVars, callVars, bgVars, pureVars, clientVars >>

\* kv.put resolved (cache-manager.ts line 200), then line 80 responds
RequestPutReturn(r) ==
    /\ req[r].pc = "set_put"
    /\ kvStore' = MapSet(kvStore, req[r].key, Stringify(ManagerOf(r)[req[r].key]))
    /\ Respond(r, req[r], "fetched")
    /\ UNCHANGED << now, configVars, memVars, callVars, bgVars, pureVars, clientVars >>

\* kv.put rejected and swallowed (cache-manager.ts line 201)
RequestPutFail(r) ==
    /\ req[r].pc = "set_put"
    /\ Respond(r, req[r], "fetched")
    /\ UNCHANGED << now, configVars, storeVars, callVars, bgVars, pureVars, clientVars >>

(***************************************************************************)
(* Specifications                                                          *)
(***************************************************************************)
Environment ==
    \/ Tick
    \/ \E k \in Keys : KvEvict(k)

SWRSteps ==
    \/ \E c \in Calls : GetEntryKvReturn(c)
    \/ \E c \in Calls : GetEntryKvFail(c)
    \/ \E c \in Calls : SWRServeCached(c)
    \/ \E c \in Calls : SWRFetch(c)
    \/ \E c \in Calls : SWRFetchReturn(c)
    \/ \E c \in Calls : SWRFetchFail(c)
    \/ \E c \in Calls : SetPutReturn(c)
    \/ \E c \in Calls : SetPutFail(c)
    \/ \E c \in Calls : RevalidateFetchReturn(c)
    \/ \E c \in Calls : RevalidateFetchFail(c)
    \/ \E c \in Calls : RevalidatePutReturn(c)
    \/ \E c \in Calls : RevalidatePutFail(c)

\* every method of the manager, on a manager with the namespace bound and
\* the staleTime of SWR_CONFIG (half of maxAge); set is called the way the
\* routes call it, without a staleTime
InitDurable ==
    /\ Init
    /\ kv = TRUE
    /\ \A k \in Keys : 2 * swrOptions[k].staleTime = swrOptions[k].maxAge

Next ==
    \/ Environment
    \/ \E c \in Calls, k \in Keys : Get(c, k)
    \/ \E c \in Calls, k \in Keys, t \in TtlSeconds :
          Set(c, k, RouteValue, t, Undefined)
    \/ \E c \in Calls, k \in Keys : Delete(c, k)
    \/ \E c \in Calls, k \in Keys : GetCacheStatus(c, k)
    \/ \E c \in Calls, k \in Keys : GetWithSWR(c, k)
    \/ \E c \in Calls : GetCacheStatusReturn(c)
    \/ \E c \in Calls : GetKvReturn(c)
    \/ \E c \in Calls : GetKvFail(c)
    \/ \E c \in Calls : DeleteKvReturn(c)
    \/ \E c \in Calls : DeleteKvFail(c)
    \/ SWRSteps

Spec == InitDurable /\ [][Next]_vars

\* only stale-while-revalidate reads
NextSWR ==
    \/ Environment
    \/ \E c \in Calls, k \in Keys : GetWithSWR(c, k)
    \/ SWRSteps

SpecSWR == Init /\ [][NextSWR]_vars

\* only writes and plain reads
NextSet ==
    \/ Tick
    \/ \E c \in Calls, k \in Keys, v \in Values, t \in TtlSeconds,
          s \in StaleSeconds \cup {Undefined} : Set(c, k, v, t, s)
    \/ \E c \in Calls, k \in Keys : Get(c, k)
    \/ \E c \in Calls : SetPutReturn(c)
    \/ \E c \in Calls : SetPutFail(c)
    \/ \E c \in Calls : GetKvReturn(c)
    \/ \E c \in Calls : GetKvFail(c)

SpecSet == Init /\ [][NextSet]_vars

\* plain reads of a manager whose namespace other managers write to
NextGet ==
    \/ Environment
    \/ \E k \in Keys, t \in TtlSeconds : OtherInstancePut(k, t)
    \/ \E c \in Calls, k \in Keys, t \in TtlSeconds :
          Set(c, k, RouteValue, t, Undefined)
    \/ \E c \in Calls, k \in Keys : Get(c, k)
    \/ \E c \in Calls : SetPutReturn(c)
    \/ \E c \in Calls : SetPutFail(c)
    \/ \E c \in Calls : GetKvReturn(c)
    \/ \E c \in Calls : GetKvFail(c)

SpecGet == Init /\ [][NextGet]_vars

\* the continuation of a getWithSWR whose getEntry has resolved
Microtasks == \E c \in Calls : SWRServeCached(c) \/ SWRFetch(c)

\* the steps of the revalidation call c launched: its fetcher settles, its
\* durable write settles
RevalidationSteps(c) ==
    \/ RevalidateFetchReturn(c)
    \/ RevalidateFetchFail(c)
    \/ RevalidatePutReturn(c)
    \/ RevalidatePutFail(c)

\* a manager in front of a namespace that holds, for every key, an entry
\* written the way the routes write (set without a staleTime)
InitRevalidation ==
    /\ Init
    /\ kv = TRUE
    /\ \A k \in Keys : MapHas(kvStore, k) /\ StaleTimeOf(kvStore[k]) = Undefined

\* stale-while-revalidate reads while the clock advances
NextRevalidation ==
    \/ Tick
    \/ \E c \in Calls, k \in Keys : GetWithSWR(c, k)
    \/ SWRSteps

\* a queued continuation runs, and a fetcher or a durable write that a
\* revalidation awaits settles
FairSpecRevalidation ==
    /\ InitRevalidation
    /\ [][NextRevalidation]_vars
    /\ WF_vars(Microtasks)
    /\ \A c \in Calls : WF_vars(RevalidationSteps(c))

\* stale-while-revalidate reads of a manager whose namespace other managers
\* write to
NextSWRShared ==
    \/ NextSWR
    \/ \E k \in Keys, t \in TtlSeconds : OtherInstancePut(k, t)

SpecSWRShared == InitDurable /\ [][NextSWRShared]_vars

\* requests to one worker process, one manager per request
NextRequests ==
    \/ Environment
    \/ \E r \in Requests, k \in Keys : RequestArrives(r, k)
    \/ \E r \in Requests : RequestKvReturn(r)
    \/ \E r \in Requests : RequestKvFail(r)
    \/ \E r \in Requests, t \in TtlSeconds : RequestFetchReturn(r, t)
    \/ \E r \in Requests : RequestFetchFail(r)
    \/ \E r \in Requests : RequestPutReturn(r)
    \/ \E r \in Requests : RequestPutFail(r)

SpecRequests == Init /\ [][NextRequests]_vars

(***************************************************************************)
(* Claims about the SWR cache manager                                      *)
(***************************************************************************)
\* fetcher invocations in flight for key k
SyncFetches(k) == {c \in Calls : pc[c] = "fetching" /\ args[c].key = k}
BackgroundFetches(k) == {c \in Calls : bg[c] = "fetching" /\ args[c].key = k}
\* the callers of window[k] whose call started a revalidation
Launchers(k) == {c \in window[k] : bg[c] # "none"}

\* C1: while a revalidation of a key is running, the callers that found the
\* key's entry stale have together invoked the fetcher exactly once (the one
\* revalidation), and each of them was handed the data of the stale entry it
\* read, marked stale, with no error.
C1_SingleFlightOnStaleKey ==
    \A k \in Keys :
        /\ k \in revalidatingKeys => Cardinality(Launchers(k)) = 1
        /\ k \notin revalidatingKeys => window[k] = {}
        /\ \A c \in window[k] :
              /\ pc[c] = "done"
              /\ result[c].status = "returned"
              /\ result[c].data = << entry[c][1].data >>
              /\ result[c].isStale
              /\ ~result[c].error
              /\ c \notin SyncFetches(k)

\* C1 witness: two callers were served the stale entry while the single
\* revalidation, started by one of them, is still fetching.
C1_Witness ==
    \E k \in Keys :
        /\ Cardinality(window[k]) >= 2
        /\ Cardinality(BackgroundFetches(k)) = 1
        /\ \A c \in window[k] : result[c].data = << OldValue >>

\* C2 as claimed: in no state are two fetcher invocations started by
\* getWithSWR for the same key in flight, whatever the state of the key.
C2_NoTwoFetchesInFlight ==
    \A k \in Keys : Cardinality(SyncFetches(k) \cup BackgroundFetches(k)) <= 1

\* C2 as amended: in no state are two background revalidation fetches for
\* the same key in flight; the set revalidatingKeys holds exactly the keys
\* with a revalidation running (fetching, or storing what it fetched).
C2_NoTwoRevalidationsInFlight ==
    \A k \in Keys :
        /\ Cardinality(BackgroundFetches(k)) <= 1
        /\ k \in revalidatingKeys <=>
              \E c \in Calls : args[c].key = k /\ bg[c] \in {"fetching", "set_put"}

\* C2 witness: a revalidation fetch is in flight and a second call found the
\* same key stale and was answered without starting another fetch.
C2_Witness ==
    \E c, d \in Calls :
        /\ c # d
        /\ args[c].key = args[d].key
        /\ bg[c] = "fetching"
        /\ pc[d] = "done" /\ result[d].isStale /\ bg[d] = "none"
        /\ ~result[d].isValidating

\* age of entry e now, and the calls about to run the body of a method
Age(e) == now - e.timestamp
AtStatus(c) == pc[c] = "decide" /\ op[c] = "getCacheStatus"
AtSWR(c) == pc[c] = "decide" /\ op[c] = "getWithSWR"
InEitherTier(k) == MapHas(memoryCache, k) \/ MapHas(kvStore, k)

\* C3 as claimed: the status getCacheStatus is about to return is fresh iff
\* age <= staleTime, stale iff staleTime < age <= ttl, expired iff age > ttl
\* (an entry stored without staleTime has none: 0), and missing iff neither
\* tier holds an entry for the key.
C3_StatusAsClaimed ==
    \A c \in Calls : AtStatus(c) =>
        LET s == CacheStatusAt(entry[c], now) IN
        /\ s = "missing" <=> ~InEitherTier(args[c].key)
        /\ IF entry[c] = <<>> THEN TRUE
           ELSE LET e == entry[c][1]
                    st == IF StaleTimeOf(e) = Undefined THEN 0 ELSE StaleTimeOf(e)
                IN  /\ s = "fresh" <=> Age(e) <= st
                    /\ s = "stale" <=> (st < Age(e) /\ Age(e) <= e.ttl)
                    /\ s = "expired" <=> Age(e) > e.ttl

\* C3 as amended: getCacheStatus returns exactly one of the four statuses;
\* missing iff getEntry found no entry; otherwise, with the threshold being
\* the stored staleTime when the entry has a non-zero one and ttl / 2 when
\* it has none, fresh iff age <= ttl and age <= threshold, stale iff
\* threshold < age <= ttl, expired iff age > ttl.
C3_Status ==
    /\ \A c \in Calls : AtStatus(c) =>
        LET s == CacheStatusAt(entry[c], now) IN
        /\ s \in {"fresh", "stale", "expired", "missing"}
        /\ s = "missing" <=> entry[c] = <<>>
        /\ IF entry[c] = <<>> THEN TRUE
           ELSE LET e == entry[c][1]
                    hasStale == StaleTimeOf(e) # Undefined /\ StaleTimeOf(e) # 0
                    overThreshold == IF hasStale THEN Age(e) > StaleTimeOf(e)
                                     ELSE 2 * Age(e) > e.ttl
                IN  /\ s = "fresh" <=> (Age(e) <= e.ttl /\ ~overThreshold)
                    /\ s = "stale" <=> (Age(e) <= e.ttl /\ overThreshold)
                    /\ s = "expired" <=> Age(e) > e.ttl
    /\ \A c \in Calls : (op[c] = "getCacheStatus" /\ pc[c] = "done") =>
        /\ result[c].cacheStatus \in {"fresh", "stale", "expired", "missing"}
        /\ result[c].cacheStatus = "missing" <=> entry[c] = <<>>

\* C3 witness: getCacheStatus has returned stale for an entry that was
\* stored without a staleTime (the ttl / 2 threshold decided it).
C3_Witness ==
    \E c \in Calls :
        /\ op[c] = "getCacheStatus" /\ pc[c] = "done"
        /\ result[c].cacheStatus = "stale"
        /\ entry[c] # <<>>
        /\ StaleTimeOf(entry[c][1]) = Undefined

\* C4: a getWithSWR that read an entry with age <= ttl returns in its next
\* step, with that entry's data, error = null and isStale = (age > staleTime),
\* staleTime being the entry's own or, when it has none, the call's option;
\* it never waits for the fetcher: a revalidation it started is still
\* fetching when it returns, and the cache is as it was.
C4_ServesCachedAtOnce ==
    [][\A c \in Calls :
          (AtSWR(c) /\ pc'[c] # "decide"
             /\ (IF entry[c] = <<>> THEN FALSE
                 ELSE Age(entry[c][1]) <= entry[c][1].ttl))
          => LET e == entry[c][1]
                 st == IF Falsy(StaleTimeOf(e))
                       THEN args[c].staleTime * MsPerSecond
                       ELSE StaleTimeOf(e)
             IN  /\ pc'[c] = "done"
                 /\ result'[c].status = "returned"
                 /\ result'[c].data = << e.data >>
                 /\ result'[c].error = FALSE
                 /\ result'[c].isStale = (Age(e) > st)
                 /\ bg'[c] \in {"none", "fetching"}
                 /\ bg'[c] = "fetching" => result'[c].isStale
                 /\ memoryCache' = memoryCache /\ kvStore' = kvStore
      ]_vars

\* C4 witness: a call was answered with stale data while the revalidation
\* it started is still waiting for the fetcher.
C4_Witness ==
    \E c \in Calls :
        /\ op[c] = "getWithSWR" /\ pc[c] = "done"
        /\ result[c].data = << OldValue >> /\ result[c].isStale
        /\ result[c].isValidating /\ ~result[c].error
        /\ bg[c] = "fetching"

\* the entry set(key, FetchValue, options.maxAge, options.staleTime) writes now
ExpectedFetched(c) ==
    [data |-> FetchValue, timestamp |-> now,
     ttl |-> args[c].maxAge * MsPerSecond,
     staleTime |-> IF args[c].staleTime = 0 THEN Undefined
                   ELSE args[c].staleTime * MsPerSecond]

\* C5: a getWithSWR that read no entry, or one with age > ttl, calls the
\* fetcher and waits; when the fetcher succeeds the value is written with
\* set and the call returns it with isStale = false and error = null; when
\* it fails the call returns the expired entry's data with isStale = true
\* and the error, or data = null and the error when there was no entry;
\* getWithSWR never throws.
C5_FetchesWhenMissingOrExpired ==
    /\ [](\A c \in Calls : op[c] = "getWithSWR" => result[c].status # "threw")
    /\ [][\A c \in Calls :
          /\ (AtSWR(c) /\ pc'[c] # "decide"
                /\ (IF entry[c] = <<>> THEN TRUE
                    ELSE Age(entry[c][1]) > entry[c][1].ttl))
             => /\ pc'[c] = "fetching"
                /\ result'[c].status = "pending"
                /\ bg'[c] = "none"
          /\ (pc[c] = "fetching" /\ pc'[c] # "fetching")
             => IF pc'[c] = "done" /\ result'[c].error
                THEN /\ result'[c].status = "returned"
                     /\ IF entry[c] = <<>>
                        THEN result'[c].data = <<>> /\ ~result'[c].isStale
                        ELSE /\ result'[c].data = << entry[c][1].data >>
                             /\ result'[c].isStale
                     /\ memoryCache' = memoryCache /\ kvStore' = kvStore
                ELSE /\ memoryCache'[args[c].key] = ExpectedFetched(c)
                     /\ IF kv THEN pc'[c] = "set_put" /\ putting'[c] # <<>>
                        ELSE pc'[c] = "done"
          /\ (op[c] = "getWithSWR" /\ pc'[c] = "done" /\ pc[c] \in {"fetching", "set_put"}
                /\ ~result'[c].error)
             => /\ result'[c].status = "returned"
                /\ result'[c].data = << FetchValue >>
                /\ ~result'[c].isStale
      ]_vars

\* C5 witness: the fetcher failed for a call that had read an expired entry,
\* and the call returned that entry's data marked stale, with the error.
C5_Witness ==
    \E c \in Calls :
        /\ op[c] = "getWithSWR" /\ pc[c] = "done"
        /\ result[c].error /\ result[c].isStale
        /\ result[c].data = << OldValue >>
        /\ bg[c] = "none"

\* C6: neither the start of a background revalidation nor its failure
\* changes an entry of the in-process tier or of the durable tier, and the
\* failure changes no caller's result (no error is reported to anyone).
C6_FailedRevalidationLeavesCache ==
    [][\A c \in Calls :
          /\ (bg[c] = "fetching" /\ bg'[c] = "failed")
             => /\ memoryCache' = memoryCache
                /\ kvStore' = kvStore
                /\ result' = result
                /\ pc' = pc
          /\ (bg[c] = "none" /\ bg'[c] = "fetching")
             => /\ memoryCache' = memoryCache
                /\ kvStore' = kvStore
                /\ result'[c].error = FALSE
      ]_vars

\* C6 witness: a revalidation has failed, the entry it was to replace is
\* still in the in-process tier, and its caller's result carries no error.
C6_Witness ==
    \E c \in Calls :
        /\ bg[c] = "failed"
        /\ MapHas(memoryCache, args[c].key)
        /\ memoryCache[args[c].key].data = OldValue
        /\ result[c].data = << OldValue >> /\ ~result[c].error

\* a set by call c that has returned although its durable write was rejected
DegradedSet(c) == op[c] = "set" /\ pc[c] = "done" /\ result[c].kvFailed

\* C7: no operation of the manager throws, whichever durable get, put or
\* delete is rejected; a set whose durable write was rejected has left its
\* entry in the in-process tier, and a get issued while that entry is the
\* last one written there and has not expired returns the value at once.
C7_DurableFailuresNotSurfaced ==
    /\ [](\A c \in Calls : result[c].status # "threw")
    /\ [](\A c \in Calls :
            (DegradedSet(c) /\ lastWriter[args[c].key] = c)
            => /\ MapHas(memoryCache, args[c].key)
               /\ memoryCache[args[c].key] = entry[c][1]
               /\ memoryCache[args[c].key].data = args[c].value)
    /\ [][\A d \in Calls : (pc[d] = "idle" /\ op'[d] = "get") =>
            \A c \in Calls :
               (IF DegradedSet(c) /\ args[c].key = args'[d].key
                                  /\ lastWriter[args[c].key] = c
                THEN Age(entry[c][1]) <= entry[c][1].ttl ELSE FALSE)
               => /\ pc'[d] = "done"
                  /\ result'[d] = Returned(<< args[c].value >>)
       ]_vars

\* C7 witness: a set returned after its durable write was rejected, the
\* namespace holds nothing for the key, and a later get returned the value.
C7_Witness ==
    \E c \in Calls, d \in Calls :
        /\ c < d
        /\ DegradedSet(c) /\ result[c].status = "returned"
        /\ op[d] = "get" /\ pc[d] = "done" /\ args[d].key = args[c].key
        /\ result[d].data = << args[c].value >>
        /\ ~MapHas(kvStore, args[c].key)

\* C8: get answers from the in-process tier when it holds an entry with
\* age <= ttl; otherwise it reads the durable tier (when one is bound) and,
\* when the read yields an entry with age <= ttl, stores that entry in the
\* in-process tier and returns its data; otherwise it returns missing and
\* leaves the in-process tier alone.  Whatever get returns is the data of an
\* entry whose age at the return is at most its ttl.
C8_GetServesLiveEntriesOnly ==
    [][\A d \in Calls :
          /\ (pc[d] = "idle" /\ op'[d] = "get") =>
                LET k == args'[d].key IN
                IF (IF MapHas(memoryCache, k)
                    THEN Age(memoryCache[k]) <= memoryCache[k].ttl ELSE FALSE)
                THEN /\ pc'[d] = "done"
                     /\ result'[d] = Returned(<< memoryCache[k].data >>)
                     /\ memoryCache' = memoryCache
                ELSE /\ memoryCache' = memoryCache
                     /\ IF kv THEN pc'[d] = "get_kv" /\ result'[d].status = "pending"
                        ELSE pc'[d] = "done" /\ result'[d] = Returned(<<>>)
          /\ (pc[d] = "get_kv" /\ pc'[d] = "done") =>
                LET k == args[d].key IN
                IF result'[d].kvFailed
                THEN result'[d].data = <<>> /\ memoryCache' = memoryCache
                ELSE IF (IF MapHas(kvStore, k)
                         THEN Age(kvStore[k]) <= kvStore[k].ttl ELSE FALSE)
                THEN /\ MapHas(memoryCache', k)
                     /\ memoryCache'[k] = kvStore[k]
                     /\ result'[d] = Returned(<< kvStore[k].data >>)
                ELSE /\ result'[d] = Returned(<<>>)
                     /\ memoryCache' = memoryCache
          /\ (op'[d] = "get" /\ pc[d] # "done" /\ pc'[d] = "done"
                /\ result'[d].data # <<>>) =>
                /\ entry'[d] # <<>>
                /\ result'[d].data = << entry'[d][1].data >>
                /\ now' - entry'[d][1].timestamp <= entry'[d][1].ttl
      ]_vars

\* C8 witness: a set's entry has expired in the in-process tier, and a get
\* issued after that set was answered from the durable tier, whose entry it
\* stored in the in-process tier.
C8_Witness ==
    \E c \in Calls, d \in Calls :
        /\ c < d
        /\ op[c] = "set" /\ isExpired(entry[c][1])
        /\ op[d] = "get" /\ pc[d] = "done" /\ args[d].key = args[c].key
        /\ result[d].data = << OldValue >>
        /\ lastWriter[args[d].key] = d
        /\ memoryCache[args[d].key] = kvStore[args[d].key]

\* set calls c and d, c called first, have both returned with their durable
\* writes done, and nothing else has used the manager
BothSetsCompleted(c, d) ==
    /\ c < d /\ kv
    /\ op[c] = "set" /\ op[d] = "set" /\ args[c].key = args[d].key
    /\ pc[c] = "done" /\ pc[d] = "done"
    /\ ~result[c].kvFailed /\ ~result[d].kvFailed
    /\ \A x \in Calls \ {c, d} : pc[x] = "idle"

\* C9 as claimed: when the durable write of the set called first completed
\* last, that set's entry is the winner, and once both sets have completed
\* the in-process tier and the durable tier hold the same entry.
C9_TiersAgreeAfterConcurrentSets ==
    \A c \in Calls, d \in Calls :
        (BothSetsCompleted(c, d) /\ entry[c] # entry[d]
            /\ kvStore[args[c].key] = Stringify(entry[c][1]))
        => /\ memoryCache[args[c].key] = entry[c][1]
           /\ Stringify(memoryCache[args[c].key]) = kvStore[args[c].key]

\* the clock readings at which an entry's status is compared
Times == {i * TickMs : i \in 0..(2 * MaxTicks)}

\* set calls c and d, c called first, had identical arguments, and d's entry
\* is the one in the in-process tier
SetTwice(c, d) ==
    /\ c < d
    /\ op[c] = "set" /\ op[d] = "set" /\ args[c] = args[d]
    /\ lastWriter[args[d].key] = d

\* C10 as claimed: after set has been called twice with identical arguments
\* the entry has the data of the first call's entry and is fresh, stale and
\* expired at the same times as the first call's entry.
C10_IdempotentAsClaimed ==
    \A c \in Calls, d \in Calls : SetTwice(c, d) =>
        LET e == memoryCache[args[d].key] IN
        /\ e.data = entry[c][1].data
        /\ \A t \in Times :
              CacheStatusAt(<< e >>, t) = CacheStatusAt(entry[c], t)

\* C10 as amended: a set with the arguments of an earlier set leaves the
\* entry a single set at the time of the second call leaves: same data, ttl
\* and staleTime as the first call's entry, timestamp the time of the second
\* call, so that the entry is fresh, stale and expired later than the first
\* call's entry by the time between the calls (and is that very entry when
\* the clock did not move between them).
C10_SecondSetRestartsEntry ==
    [][\A d \in Calls : (pc[d] = "idle" /\ op'[d] = "set") =>
          \A c \in Calls : (op[c] = "set" /\ args[c] = args'[d]) =>
             LET e == memoryCache'[args'[d].key]
                 first == entry[c][1]
                 gap == now - first.timestamp
             IN  /\ e.data = first.data
                 /\ e.ttl = first.ttl
                 /\ StaleTimeOf(e) = StaleTimeOf(first)
                 /\ e.timestamp = now
                 /\ gap >= 0
                 /\ gap = 0 => e = first
                 /\ \A t \in Times :
                       CacheStatusAt(<< e >>, t + gap) = CacheStatusAt(<< first >>, t)
      ]_vars

\* C10 witness: set was called twice with identical arguments at different
\* clock readings, and the second call's entry is in the in-process tier.
C10_Witness ==
    \E c \in Calls, d \in Calls :
        /\ SetTwice(c, d)
        /\ entry[d][1].timestamp > entry[c][1].timestamp
        /\ memoryCache[args[d].key] = entry[d][1]

\* request r has answered from the registry and its manager still holds the
\* entry it wrote, not expired; request s arrived after r had answered
ServedBefore(r, s) ==
    /\ r # s
    /\ req[r].pc = "done" /\ req[r].response = "fetched"
    /\ req[s].pc # "idle" /\ req[s].key = req[r].key
    /\ req[s].arrived > req[r].completed
    /\ ~isExpired(ManagerOf(r)[req[r].key])

\* C11 as claimed: the in-process map is one for all requests of the
\* process, so the managers of any two requests hold the same entries, and a
\* request that arrives after another request has written an entry which has
\* not expired finds it and does not call the registry again.
C11_ManagersShareState ==
    /\ \A r \in Requests, s \in Requests :
          (req[r].pc # "idle" /\ req[s].pc # "idle")
          => /\ ManagerOf(r) = ManagerOf(s)
             /\ req[r].revalidatingKeys = req[s].revalidatingKeys
    /\ \A r \in Requests, s \in Requests :
          ServedBefore(r, s) => req[s].pc # "fetching"

(***************************************************************************)
(* Part 3a: processFinancialData (src/src/processors/financial-processor.ts *)
(* lines 95-200).  A statement is a record year, quarter, revenue,         *)
(* operatingProfit, netIncome; null is the empty sequence.                 *)
(***************************************************************************)
\* line 103: quarterOrder
quarterOrder == [Q1 |-> 1, Q2 |-> 2, Q3 |-> 3, Q4 |-> 4]
QuarterNames == << "Q1", "Q2", "Q3", "Q4" >>

\* lines 99-105: the comparator is negative when a sorts before b
Before(a, b) ==
    \/ a.year < b.year
    \/ a.year = b.year /\ quarterOrder[a.quarter] < quarterOrder[b.quarter]

\* Array.prototype.sort is stable: x goes after the elements that do not
\* sort after it
RECURSIVE InsertSorted(_, _)
InsertSorted(x, seq) ==
    IF seq = <<>> THEN << x >>
    ELSE IF Before(x, Head(seq)) THEN << x >> \o seq
    ELSE << Head(seq) >> \o InsertSorted(x, Tail(seq))

RECURSIVE SortStatements(_)
SortStatements(statements) ==
    IF statements = <<>> THEN <<>>
    ELSE InsertSorted(statements[Len(statements)],
                      SortStatements(SubSeq(statements, 1, Len(statements) - 1)))

\* lines 108-112: byYear[year], in sorted order
YearData(sorted, year) == SelectSeq(sorted, LAMBDA st : st.year = year)

\* line 117: Object.keys(byYear).sort(), the years of four digits ascending
RECURSIVE AscendingYears(_)
AscendingYears(years) ==
    IF years = {} THEN <<>>
    ELSE LET y == CHOOSE y \in years : \A z \in years : y <= z
         IN  << y >> \o AscendingYears(years \ {y})

\* lines 121-124: yearData.find(d => d.quarter === quarter), or null
find(yearData, quarter) ==
    LET hits == SelectSeq(yearData, LAMBDA d : d.quarter = quarter)
    IN  IF hits = <<>> THEN <<>> ELSE << Head(hits) >>

CumulativeGateOff(filing) == filing # <<>>

\* lines 127, 138, 155, 172: `q && q.revenue > 0`
CumulativeGate(filing) ==
    IF filing = <<>> THEN FALSE ELSE filing[1].revenue > 0

PreviousQuarter == [Q2 |-> "Q1", Q3 |-> "Q2", Q4 |-> "Q3"]

PrerequisiteAnyEarlier(yearData, quarter) ==
    LET earlier == SelectSeq(yearData,
                       LAMBDA d : quarterOrder[d.quarter] < quarterOrder[quarter])
    IN  IF earlier = <<>> THEN <<>> ELSE << earlier[Len(earlier)] >>

\* lines 138, 155, 172: the filing a quarter is derived from (`&& q1`,
\* `&& q2Cum`, `&& q3Cum`), or null
Prerequisite(yearData, quarter) == find(yearData, PreviousQuarter[quarter])

StandaloneFromFiled(cum, prev) ==
    [revenue |-> cum.revenue, operatingProfit |-> cum.operatingProfit,
     netIncome |-> cum.netIncome]

\* lines 139-141, 156-158, 173-175
Standalone(cum, prev) ==
    [revenue |-> cum.revenue - prev.revenue,
     operatingProfit |-> cum.operatingProfit - prev.operatingProfit,
     netIncome |-> cum.netIncome - prev.netIncome]

IncludedAllPositive(st) ==
    st.revenue > 0 /\ st.operatingProfit > 0 /\ st.netIncome > 0

\* lines 143, 160, 177: `if (q2Revenue > 0)`
Included(st) == st.revenue > 0

\* the statement pushed to quarterlyData
Period(year, quarter, values) ==
    [year |-> year, quarter |-> quarter, revenue |-> values.revenue,
     operatingProfit |-> values.operatingProfit, netIncome |-> values.netIncome]

\* lines 127-135
FirstQuarter(year, yearData) ==
    LET q1 == find(yearData, "Q1")
    IN  IF CumulativeGate(q1) THEN << Period(year, "Q1", q1[1]) >> ELSE <<>>

\* lines 138-152, 155-169, 172-186
LaterQuarter(year, yearData, quarter) ==
    LET cum == find(yearData, quarter)
        prev == Prerequisite(yearData, quarter)
    IN  IF CumulativeGate(cum) /\ prev # <<>>
        THEN LET st == Standalone(cum[1], prev[1])
             IN  IF Included(st) THEN << Period(year, quarter, st) >> ELSE <<>>
        ELSE <<>>

\* lines 117-187, one year
ReconstructYear(year, yearData) ==
    FirstQuarter(year, yearData) \o LaterQuarter(year, yearData, "Q2")
        \o LaterQuarter(year, yearData, "Q3") \o LaterQuarter(year, yearData, "Q4")

RECURSIVE ReconstructYears(_, _)
ReconstructYears(years, sorted) ==
    IF years = <<>> THEN <<>>
    ELSE ReconstructYear(Head(years), YearData(sorted, Head(years)))
            \o ReconstructYears(Tail(years), sorted)

\* lines 53-78 (dates as year, month, day)
\* a key the three tables do not hold reads as undefined in each of them
createQuarterPeriod(year, quarter) ==
    IF quarter \in 1..4
    THEN [year |-> year, quarter |-> QuarterNames[quarter],
          startDate |-> << year, 3 * quarter - 2, 1 >>,
          endDate |-> << year, 3 * quarter, IF quarter \in {1, 4} THEN 31 ELSE 30 >>]
    ELSE [year |-> year, quarter |-> "undefined",
          startDate |-> <<>>, endDate |-> <<>>]

\* lines 95-200
processFinancialData(statements) ==
    LET sorted == SortStatements(statements)
        years == AscendingYears({sorted[i].year : i \in 1..Len(sorted)})
        quarterlyData == ReconstructYears(years, sorted)
        n == Len(quarterlyData)
    IN  [quarters |-> [i \in 1..n |->
                         createQuarterPeriod(quarterlyData[i].year,
                                             quarterOrder[quarterlyData[i].quarter])],
         revenue |-> [i \in 1..n |-> quarterlyData[i].revenue],
         operatingProfit |-> [i \in 1..n |-> quarterlyData[i].operatingProfit],
         netIncome |-> [i \in 1..n |-> quarterlyData[i].netIncome]]

\* The statements the function is applied to: for fiscal year 2023 every
\* quarter's filing is absent or filed with a revenue of Amounts, the other
\* two figures following one of two profiles (profits that reach zero, or
\* losses); filings of another year may surround them; the filings come in
\* one of the orders of Orders.
Amounts == {-1, 0, 100, 250, 420, 600}
Absent == -2
Profiles == {1, 2}
Orders == { << 1, 2, 3, 4 >>, << 4, 3, 2, 1 >>, << 2, 4, 1, 3 >>, << 3, 1, 4, 2 >> }

Statement(year, quarter, amount, profile) ==
    [year |-> year, quarter |-> quarter, revenue |-> amount,
     operatingProfit |-> IF profile = 1 THEN amount - 100 ELSE 0 - amount,
     netIncome |-> IF profile = 1 THEN 50 ELSE amount]

OtherYears ==
    { <<>>,
      << Statement(2024, "Q2", 250, 1), Statement(2024, "Q1", 100, 1) >>,
      << Statement(2022, "Q3", 420, 2) >> }

RECURSIVE Filings(_, _, _)
Filings(revenues, profile, order) ==
    IF order = <<>> THEN <<>>
    ELSE LET q == Head(order)
             rest == Filings(revenues, profile, Tail(order))
         IN  IF revenues[q] = Absent THEN rest
             ELSE << Statement(2023, QuarterNames[q], revenues[q], profile) >> \o rest

StatementInputs ==
    { IF otherFirst THEN other \o Filings(revenues, profile, order)
      ELSE Filings(revenues, profile, order) \o other :
        revenues \in [1..4 -> Amounts \cup {Absent}], profile \in Profiles,
        order \in Orders, other \in OtherYears, otherFirst \in BOOLEAN }

InitProcess ==
    /\ InitAtRest
    /\ input \in StatementInputs
    /\ output = <<>>

ProcessFinancialData ==
    /\ output = <<>>
    /\ output' = << processFinancialData(input) >>
    /\ UNCHANGED << serviceVars, clientVars, input >>

SpecProcess == InitProcess /\ [][ProcessFinancialData]_vars

(***************************************************************************)
(* Claims about processFinancialData                                       *)
(***************************************************************************)
FiscalYears == {2022, 2023, 2024}
LaterQuarters == {"Q2", "Q3", "Q4"}

\* the filing of a period among the statements passed in (all of the inputs
\* hold at most one filing per period)
IsFiled(year, quarter) ==
    \E i \in 1..Len(input) : input[i].year = year /\ input[i].quarter = quarter
FiledAs(year, quarter) ==
    input[CHOOSE i \in 1..Len(input) :
              input[i].year = year /\ input[i].quarter = quarter]

\* the positions of a period in the output
Positions(year, quarter) ==
    {i \in 1..Len(output[1].quarters) :
        output[1].quarters[i].year = year /\ output[1].quarters[i].quarter = quarter}
IsOutput(year, quarter) == Positions(year, quarter) # {}
PositionOf(year, quarter) == CHOOSE i \in Positions(year, quarter) : TRUE

\* the three figures at a position of the output
FiguresAt(i) ==
    [revenue |-> output[1].revenue[i],
     operatingProfit |-> output[1].operatingProfit[i],
     netIncome |-> output[1].netIncome[i]]
FiguresOf(st) ==
    [revenue |-> st.revenue, operatingProfit |-> st.operatingProfit,
     netIncome |-> st.netIncome]
Minus(a, b) ==
    [revenue |-> a.revenue - b.revenue,
     operatingProfit |-> a.operatingProfit - b.operatingProfit,
     netIncome |-> a.netIncome - b.netIncome]

\* what the period (year, quarter) is worth when every filing it needs exists
Expected(year, quarter) ==
    IF quarter = "Q1" THEN FiguresOf(FiledAs(year, "Q1"))
    ELSE Minus(FiguresOf(FiledAs(year, quarter)),
               FiguresOf(FiledAs(year, PreviousQuarter[quarter])))

AllFourIncreasing(year) ==
    /\ \A q \in {"Q1", "Q2", "Q3", "Q4"} : IsFiled(year, q)
    /\ 0 < FiledAs(year, "Q1").revenue
    /\ \A q \in LaterQuarters :
          FiledAs(year, PreviousQuarter[q]).revenue < FiledAs(year, q).revenue

\* C12: for a fiscal year whose four filings are all present with strictly
\* increasing positive cumulative revenue, the output holds Q1, Q2, Q3, Q4 of
\* that year once each, in this order and next to one another, with
\* Q1 = P1 filed and Qn = Pn cumulative - P(n-1) cumulative for revenue,
\* operating profit and net income.
C12_ReconstructsFourQuarters ==
    output # <<>> =>
        \A year \in FiscalYears : AllFourIncreasing(year) =>
            /\ \A q \in {"Q1", "Q2", "Q3", "Q4"} :
                  /\ Cardinality(Positions(year, q)) = 1
                  /\ FiguresAt(PositionOf(year, q)) = Expected(year, q)
            /\ \A q \in LaterQuarters :
                  PositionOf(year, q) = PositionOf(year, PreviousQuarter[q]) + 1

\* C12 witness: revenue 100, 250, 420, 600 filed (with losses of the same
\* size as operating profit) came out as 100, 150, 170, 180.
C12_Witness ==
    /\ output # <<>>
    /\ AllFourIncreasing(2023)
    /\ output[1].revenue = << 100, 150, 170, 180 >>
    /\ output[1].operatingProfit = << -100, -150, -170, -180 >>
    /\ output[1].netIncome = << 100, 150, 170, 180 >>

FiledQuarters(year) == {q \in {"Q1", "Q2", "Q3", "Q4"} : IsFiled(year, q)}
OutputQuarters(year) == {q \in {"Q1", "Q2", "Q3", "Q4"} : IsOutput(year, q)}

\* C13: a period Pn (n in 2..4) is never output for a year in which P(n-1)
\* was not filed, whatever else was filed; for a year with only P1 and P3
\* filed the output holds no period but P1 (P1 itself being output when its
\* revenue is positive).
C13_NoPeriodWithoutPrerequisite ==
    output # <<>> =>
        \A year \in FiscalYears :
            /\ \A q \in LaterQuarters :
                  ~IsFiled(year, PreviousQuarter[q]) => ~IsOutput(year, q)
            /\ FiledQuarters(year) = {"Q1", "Q3"} =>
                  /\ OutputQuarters(year) \subseteq {"Q1"}
                  /\ FiledAs(year, "Q1").revenue > 0 => OutputQuarters(year) = {"Q1"}

\* C13 witness: only P1 and P3 of 2023 were filed, P3 above P1, and the
\* output for 2023 is P1 alone.
C13_Witness ==
    /\ output # <<>>
    /\ FiledQuarters(2023) = {"Q1", "Q3"}
    /\ FiledAs(2023, "Q3").revenue > FiledAs(2023, "Q1").revenue
    /\ OutputQuarters(2023) = {"Q1"}
    /\ output[1].revenue = << FiledAs(2023, "Q1").revenue >>

\* the derived standalone revenue of a later period is positive
DerivedPositive(year, q) ==
    /\ IsFiled(year, q) /\ IsFiled(year, PreviousQuarter[q])
    /\ FiledAs(year, q).revenue - FiledAs(year, PreviousQuarter[q]).revenue > 0

\* C14 as claimed: Pn (n in 2..4) is output iff P(n-1) was filed and the
\* derived standalone revenue is > 0, P1 iff its filed revenue is > 0, and
\* nothing else about the cumulative values matters.
C14_InclusionAsClaimed ==
    output # <<>> =>
        \A year \in FiscalYears :
            /\ IsOutput(year, "Q1")
                  <=> (IsFiled(year, "Q1") /\ FiledAs(year, "Q1").revenue > 0)
            /\ \A q \in LaterQuarters : IsOutput(year, q) <=> DerivedPositive(year, q)

\* C14 as amended: Pn (n in 2..4) is output iff Pn was filed with a
\* cumulative revenue > 0, P(n-1) was filed, and the derived standalone
\* revenue is > 0; P1 is output iff it was filed with a revenue > 0.
C14_Inclusion ==
    output # <<>> =>
        \A year \in FiscalYears :
            /\ IsOutput(year, "Q1")
                  <=> (IsFiled(year, "Q1") /\ FiledAs(year, "Q1").revenue > 0)
            /\ \A q \in LaterQuarters :
                  IsOutput(year, q)
                  <=> (DerivedPositive(year, q) /\ FiledAs(year, q).revenue > 0)

\* C14 witness: a period whose derived revenue is positive was left out
\* because its own cumulative revenue is not.
C14_Witness ==
    /\ output # <<>>
    /\ \E q \in LaterQuarters :
          /\ DerivedPositive(2023, q)
          /\ FiledAs(2023, q).revenue <= 0
          /\ ~IsOutput(2023, q)
    /\ IsOutput(2023, "Q4")

\* the revenue figures alone admit the period (year, quarter)
RevenueAdmits(year, q) ==
    IF q = "Q1" THEN IsFiled(year, "Q1") /\ FiledAs(year, "Q1").revenue > 0
    ELSE DerivedPositive(year, q) /\ FiledAs(year, q).revenue > 0

\* C15: the four arrays of the output have the same length and position i of
\* each describes the period quarters[i]; the periods are in strictly
\* ascending (year, quarter) order whatever the order of the statements;
\* a period is output iff its revenue figures admit it, with its operating
\* profit and net income as derived, zero and negative values included; every
\* revenue of the output is > 0.
C15_AlignedAscendingRevenueGated ==
    output # <<>> =>
        LET out == output[1]
            n == Len(out.quarters)
        IN  /\ Len(out.revenue) = n
            /\ Len(out.operatingProfit) = n
            /\ Len(out.netIncome) = n
            /\ \A i \in 1..n :
                  /\ out.revenue[i] > 0
                  /\ out.quarters[i].year \in FiscalYears
                  /\ FiguresAt(i) = Expected(out.quarters[i].year, out.quarters[i].quarter)
            /\ \A i \in 1..n, j \in 1..n :
                  i < j =>
                     \/ out.quarters[i].year < out.quarters[j].year
                     \/ /\ out.quarters[i].year = out.quarters[j].year
                        /\ quarterOrder[out.quarters[i].quarter]
                              < quarterOrder[out.quarters[j].quarter]
            /\ \A year \in FiscalYears, q \in {"Q1", "Q2", "Q3", "Q4"} :
                  IsOutput(year, q) <=> RevenueAdmits(year, q)

\* C15 witness: statements of two years passed latest first came out as
\* five periods or more, with a loss in one and a net income of zero in one.
C15_Witness ==
    /\ output # <<>>
    /\ Len(output[1].quarters) >= 5
    /\ input[1].year = 2024
    /\ input[Len(input)].quarter = "Q1"
    /\ \E i \in 1..Len(output[1].quarters) : output[1].operatingProfit[i] < 0
    /\ \E i \in 1..Len(output[1].quarters) : output[1].netIncome[i] = 0

(***************************************************************************)
(* Part 3b: formatKoreanCurrency and calculateMetricChanges                *)
(* (financial-processor.ts lines 220-270).                                 *)
(*                                                                         *)
(* An amount is m * 10^e, kept as the record [m, e] so that amounts of     *)
(* 10^12 and above are within reach; a percentage with two decimals is     *)
(* counted in hundredths, a scaled amount with one decimal in tenths.      *)
(* Math.round rounds to the nearest integer, a tie towards +Infinity.      *)
(* null is the empty sequence.                                             *)
(***************************************************************************)
Abs(x) == IF x < 0 THEN 0 - x ELSE x

RECURSIVE Pow10(_)
Pow10(n) == IF n = 0 THEN 1 ELSE 10 * Pow10(n - 1)

\* the largest power of ten an integer of the model is compared with
MaxPow == 9

\* Math.round(num / den) for den > 0: floor(num / den + 1/2)
MathRound(num, den) == (2 * num + den) \div (2 * den)

\* lines 251-252, 262: the thresholds, as powers of ten
TRILLION == 12
HUNDRED_MILLION == 8
TEN_THOUSAND == 4

\* absAmount >= 10^k, for absAmount = m * 10^e with m >= 0
AtLeastPow10(m, e, k) ==
    IF e >= k THEN m >= 1
    ELSE IF k - e > MaxPow THEN FALSE
    ELSE m >= Pow10(k - e)

\* Math.round((absAmount / 10^k) * 10), for absAmount = m * 10^e >= 10^k
RoundedTenths(m, e, k) ==
    IF e + 1 >= k THEN m * Pow10(e + 1 - k)
    ELSE MathRound(m, Pow10(k - 1 - e))

\* `${sign}${rounded}unit`: a number is printed with the digits it needs, a
\* whole number without a decimal point
Template(sign, tenths, unit) ==
    [sign |-> sign, whole |-> tenths \div 10,
     decimal |-> IF tenths % 10 = 0 THEN <<>> ELSE << tenths % 10 >>,
     unit |-> unit]

\* lines 247-270; the units are the suffixes of lines 257, 261, 266
formatKoreanCurrency(amount) ==
    LET absM == Abs(amount.m)
        e == amount.e
        sign == IF amount.m < 0 THEN "-" ELSE ""
    IN  IF AtLeastPow10(absM, e, TRILLION)
        THEN Template(sign, RoundedTenths(absM, e, TRILLION), "jo")
        ELSE IF AtLeastPow10(absM, e, HUNDRED_MILLION)
        THEN Template(sign, RoundedTenths(absM, e, HUNDRED_MILLION), "eok")
        ELSE IF AtLeastPow10(absM, e, TEN_THOUSAND)
        THEN Template(sign, RoundedTenths(absM, e, TEN_THOUSAND), "man")
        ELSE [sign |-> sign,
              whole |-> IF absM = 0 THEN 0 ELSE absM * Pow10(e),
              decimal |-> <<>>, unit |-> ""]

DenominatorSigned(previous) == previous

\* line 227: Math.abs(previous)
Denominator(previous) == Abs(previous)

\* lines 227-229, in hundredths of a percent:
\* Math.round(((value - previous) / |previous|) * 100 * 100) / 100
qoqChange(value, previous) ==
    LET den == Denominator(previous)
    IN  IF den > 0 THEN MathRound((value - previous) * 10000, den)
        ELSE MathRound((previous - value) * 10000, 0 - den)

\* lines 220-239
calculateMetricChanges(values) ==
    [index \in 1..Len(values) |->
        [value |-> values[index],
         qoqChange |-> IF index > 1
                       THEN (IF values[index - 1] # 0
                             THEN << qoqChange(values[index], values[index - 1]) >>
                             ELSE <<>>)
                       ELSE <<>>,
         formattedValue |-> formatKoreanCurrency([m |-> values[index], e |-> 0])]]

\* The values a metric takes: every tie of the rounding they produce has a
\* previous value of 32 or -32, for which the floating-point quotient is exact.
MetricValues == {-32, 0, 3, 4, 31, 32, 33, 100, 120, 150}
MaxValues == 3

RECURSIVE SeqsUpTo(_, _)
SeqsUpTo(S, n) ==
    IF n = 0 THEN { <<>> }
    ELSE LET shorter == SeqsUpTo(S, n - 1)
         IN  shorter \cup { Append(q, x) : q \in {t \in shorter : Len(t) = n - 1}, x \in S }

InitChanges ==
    /\ InitAtRest
    /\ input \in SeqsUpTo(MetricValues, MaxValues)
    /\ output = <<>>

CalculateMetricChanges ==
    /\ output = <<>>
    /\ output' = << calculateMetricChanges(input) >>
    /\ UNCHANGED << serviceVars, clientVars, input >>

SpecChanges == InitChanges /\ [][CalculateMetricChanges]_vars

\* The amounts formatted: a mantissa of at most four digits, signed, and a
\* power of ten.
Mantissas == {0, 1, 5, 15, 95, 99, 125, 500, 994, 995, 1234, 9995, 9999}
MaxExponent == 9

InitFormat ==
    /\ InitAtRest
    /\ input \in [m : Mantissas \cup {0 - x : x \in Mantissas}, e : 0..MaxExponent]
    /\ output = <<>>

FormatKoreanCurrency ==
    /\ output = <<>>
    /\ output' = << formatKoreanCurrency(input) >>
    /\ UNCHANGED << serviceVars, clientVars, input >>

SpecFormat == InitFormat /\ [][FormatKoreanCurrency]_vars

(***************************************************************************)
(* Claims about calculateMetricChanges and formatKoreanCurrency            *)
(***************************************************************************)
\* the exact change of position i, times |previous|, in hundredths of a percent
ExactTimesPrevious(i) == (input[i] - input[i - 1]) * 10000

RoundHalfAwayFromZero(num, den) ==
    IF num >= 0 THEN (2 * num + den) \div (2 * den)
    ELSE 0 - ((2 * (0 - num) + den) \div (2 * den))

\* C17 as claimed: every change is the exact percentage rounded to two
\* decimals with a tie rounded away from zero, whatever its sign.
C17_TiesAwayFromZero ==
    output # <<>> =>
        \A i \in 1..Len(input) :
            output[1][i].qoqChange # <<>> =>
                output[1][i].qoqChange[1]
                    = RoundHalfAwayFromZero(ExactTimesPrevious(i), Abs(input[i - 1]))

\* the unit the magnitude of an amount calls for
UnitOf(amount) ==
    IF AtLeastPow10(Abs(amount.m), amount.e, TRILLION) THEN "jo"
    ELSE IF AtLeastPow10(Abs(amount.m), amount.e, HUNDRED_MILLION) THEN "eok"
    ELSE IF AtLeastPow10(Abs(amount.m), amount.e, TEN_THOUSAND) THEN "man"
    ELSE ""

\* "w.d" followed by the unit
Printed(whole, decimal, unit) ==
    [sign |-> "", whole |-> whole, decimal |-> decimal, unit |-> unit]

\* C18 as claimed: the unit follows the magnitude, a scaled value is printed
\* with exactly one decimal place, the sign comes first; 1234000000000 gives
\* "1.2" with the trillion suffix, 500000000 "5.0" with the hundred-million
\* suffix, 15000 "1.5" with the ten-thousand suffix, 500 gives "500".
C18_FormatAsClaimed ==
    output # <<>> =>
        LET f == output[1] IN
        /\ f.unit = UnitOf(input)
        /\ f.sign = (IF input.m < 0 THEN "-" ELSE "")
        /\ f.unit # "" => Len(f.decimal) = 1
        /\ f.unit = "" =>
              /\ f.decimal = <<>>
              /\ input.m # 0 => f.whole = Abs(input.m) * Pow10(input.e)
              /\ input.m = 0 => f.whole = 0
        /\ input = [m |-> 1234, e |-> 9] => f = Printed(1, << 2 >>, "jo")
        /\ input = [m |-> 5, e |-> 8] => f = Printed(5, << 0 >>, "eok")
        /\ input = [m |-> 15, e |-> 3] => f = Printed(1, << 5 >>, "man")
        /\ input = [m |-> 500, e |-> 0] => f = Printed(500, <<>>, "")

\* ====================================================================
\* Part 3c.  ratio-calculator.ts
\*
\* A number is NaN or a finite rational kept exact in lowest terms with a
\* positive denominator; the arguments are integers or NaN.  A nullable
\* result is <<>> (null) or << number >>, an optional argument is <<>>
\* (undefined) or << number >>.
\* ====================================================================

RECURSIVE GCD(_, _)
GCD(a, b) == IF b = 0 THEN a ELSE GCD(b, a % b)

NotANumber == [kind |-> "NaN", num |-> 0, den |-> 1]

Infinity(sign) == [kind |-> "Infinity", num |-> sign, den |-> 1]

Finite(num, den) ==
    LET g == GCD(Abs(num), Abs(den))
        s == IF den < 0 THEN -1 ELSE 1
    IN  [kind |-> "finite", num |-> s * (num \div g), den |-> s * (den \div g)]

Number(n) == Finite(n, 1)

isNaN(x) == x.kind = "NaN"

\* x === 0
IsZero(x) == x.kind = "finite" /\ x.num = 0

\* x > 0 (false for NaN)
GreaterThanZero(x) ==
    \/ x.kind = "finite" /\ x.num > 0
    \/ x.kind = "Infinity" /\ x.num > 0

\* x / y
Quotient(x, y) ==
    IF isNaN(x) \/ isNaN(y) THEN NotANumber
    ELSE IF x.kind = "Infinity"
    THEN IF y.kind = "Infinity" THEN NotANumber
         ELSE Infinity(IF y.num < 0 THEN 0 - x.num ELSE x.num)
    ELSE IF y.kind = "Infinity" THEN Number(0)
    ELSE IF y.num = 0
    THEN IF x.num = 0 THEN NotANumber
         ELSE Infinity(IF x.num < 0 THEN -1 ELSE 1)
    ELSE Finite(x.num * y.den, x.den * y.num)

\* x * 100
Percent(x) ==
    IF x.kind = "finite" THEN Finite(x.num * 100, x.den) ELSE x

\* x + y - z of finite or NaN operands
PlusMinus(x, y, z) ==
    IF isNaN(x) \/ isNaN(y) \/ isNaN(z) THEN NotANumber
    ELSE Finite(x.num * y.den * z.den + y.num * x.den * z.den
                    - z.num * x.den * y.den,
                x.den * y.den * z.den)

calculateEPS(netIncome, totalShares) ==
    IF IsZero(totalShares) \/ isNaN(totalShares) THEN <<>>
    ELSE << Quotient(netIncome, totalShares) >>

calculatePBR(stockPrice, bookValuePerShare) ==
    IF IsZero(bookValuePerShare) \/ isNaN(bookValuePerShare) THEN <<>>
    ELSE << Quotient(stockPrice, bookValuePerShare) >>

calculateROA(netIncome, totalAssets) ==
    IF IsZero(totalAssets) \/ isNaN(totalAssets) THEN <<>>
    ELSE << Percent(Quotient(netIncome, totalAssets)) >>

calculateROE(netIncome, totalEquity) ==
    IF IsZero(totalEquity) \/ isNaN(totalEquity) THEN <<>>
    ELSE << Percent(Quotient(netIncome, totalEquity)) >>

calculateEVEBITDA(enterpriseValue, ebitda) ==
    IF IsZero(ebitda) \/ isNaN(ebitda) THEN <<>>
    ELSE << Quotient(enterpriseValue, ebitda) >>

calculateOperatingMargin(operatingProfit, revenue) ==
    IF IsZero(revenue) \/ isNaN(revenue) \/ isNaN(operatingProfit) THEN <<>>
    ELSE << Percent(Quotient(operatingProfit, revenue)) >>

calculateDebtRatio(totalDebt, totalEquity) ==
    IF IsZero(totalEquity) \/ isNaN(totalEquity) \/ isNaN(totalDebt) THEN <<>>
    ELSE << Percent(Quotient(totalDebt, totalEquity)) >>

calculateCurrentRatio(currentAssets, currentLiabilities) ==
    IF IsZero(currentLiabilities) \/ isNaN(currentLiabilities)
           \/ isNaN(currentAssets)
    THEN <<>>
    ELSE << Percent(Quotient(currentAssets, currentLiabilities)) >>

\* const bookValuePerShare = totalShares > 0 ? totalEquity / totalShares : 0
bookValuePerShare(financialData) ==
    IF GreaterThanZero(financialData.totalShares)
    THEN Quotient(financialData.totalEquity, financialData.totalShares)
    ELSE Number(0)

\* 0 unless the three components are all supplied
enterpriseValue(marketCap, totalDebt, cash) ==
    IF marketCap # <<>> /\ totalDebt # <<>> /\ cash # <<>>
    THEN PlusMinus(marketCap[1], totalDebt[1], cash[1])
    ELSE Number(0)

\* the gate in front of EV/EBITDA with the comparison left out
EbitdaGateOff(ebitda) == TRUE

\* ebitda > 0 ? calculateEVEBITDA(...) : null
EbitdaGate(ebitda) == GreaterThanZero(ebitda)

calculateAllRatios(financialData, stockPrice, netIncome, marketCap, totalDebt, cash) ==
    [eps |-> calculateEPS(netIncome, financialData.totalShares),
     pbr |-> calculatePBR(stockPrice, bookValuePerShare(financialData)),
     roa |-> calculateROA(netIncome, financialData.totalAssets),
     roe |-> calculateROE(netIncome, financialData.totalEquity),
     evEbitda |->
         IF EbitdaGate(financialData.ebitda)
         THEN calculateEVEBITDA(enterpriseValue(marketCap, totalDebt, cash),
                                financialData.ebitda)
         ELSE <<>>]

\* --------------------------------------------------------------------
\* The ratio functions applied to bounded arguments
\* --------------------------------------------------------------------

RatioIntegers == {-2, 0, 100, 1000}

RatioNumbers == {NotANumber} \cup {Number(n) : n \in RatioIntegers}

FinancialDetails ==
    [totalAssets : RatioNumbers, totalEquity : RatioNumbers,
     totalShares : RatioNumbers, ebitda : RatioNumbers]

BinaryRatios ==
    {"calculateEPS", "calculatePBR", "calculateROA", "calculateROE",
     "calculateEVEBITDA", "calculateOperatingMargin", "calculateDebtRatio",
     "calculateCurrentRatio"}

\* a call of one ratio function: numerator and denominator in call order,
\* or the arguments of calculateAllRatios
RatioCalls ==
    [fn : BinaryRatios, a : RatioNumbers, b : RatioNumbers]
    \cup
    [fn : {"calculateAllRatios"}, financialData : FinancialDetails,
     stockPrice : {Number(100), NotANumber}, netIncome : {Number(1000)},
     marketCap : {<<>>, << Number(1000) >>},
     totalDebt : {<< Number(100) >>},
     cash : {<<>>, << Number(-2) >>, << NotANumber >>}]

InitRatios ==
    /\ InitAtRest
    /\ input \in RatioCalls
    /\ output = <<>>

Returns(fn, returned) ==
    /\ output = <<>>
    /\ input.fn = fn
    /\ output' = << returned >>
    /\ UNCHANGED << serviceVars, clientVars, input >>

CalculateEPS == Returns("calculateEPS", calculateEPS(input.a, input.b))

CalculatePBR == Returns("calculatePBR", calculatePBR(input.a, input.b))

CalculateROA == Returns("calculateROA", calculateROA(input.a, input.b))

CalculateROE == Returns("calculateROE", calculateROE(input.a, input.b))

CalculateEVEBITDA ==
    Returns("calculateEVEBITDA", calculateEVEBITDA(input.a, input.b))

CalculateOperatingMargin ==
    Returns("calculateOperatingMargin",
            calculateOperatingMargin(input.a, input.b))

CalculateDebtRatio ==
    Returns("calculateDebtRatio", calculateDebtRatio(input.a, input.b))

CalculateCurrentRatio ==
    Returns("calculateCurrentRatio", calculateCurrentRatio(input.a, input.b))

CalculateAllRatios ==
    /\ input.fn = "calculateAllRatios"
    /\ Returns("calculateAllRatios",
               calculateAllRatios(input.financialData, input.stockPrice,
                                  input.netIncome, input.marketCap,
                                  input.totalDebt, input.cash))

NextRatios ==
    \/ CalculateEPS
    \/ CalculatePBR
    \/ CalculateROA
    \/ CalculateROE
    \/ CalculateEVEBITDA
    \/ CalculateOperatingMargin
    \/ CalculateDebtRatio
    \/ CalculateCurrentRatio
    \/ CalculateAllRatios

SpecRatios == InitRatios /\ [][NextRatios]_vars

\* --------------------------------------------------------------------
\* Claim C19
\* --------------------------------------------------------------------

\* a denominator that is 0 or NaN
BadDenominator(x) == IsZero(x) \/ isNaN(x)

\* x <= 0 (false for NaN)
AtMostZero(x) == x.kind = "finite" /\ x.num <= 0

\* the functions that also look at their numerator
NumeratorChecked ==
    {"calculateOperatingMargin", "calculateDebtRatio", "calculateCurrentRatio"}

\* the two examples of EPS
EPSExamples ==
    /\ calculateEPS(Number(1000), Number(0)) = <<>>
    /\ calculateEPS(Number(1000), Number(100)) = << Number(10) >>

\* C19 as claimed: every ratio function returns null exactly when its
\* denominator is 0 or NaN (for calculateAllRatios: each of its five ratios
\* exactly when that ratio's denominator is 0 or NaN), EPS(1000, 0) is null,
\* EPS(1000, 100) is 10, and the PBR of calculateAllRatios is null whenever
\* totalShares <= 0.
C19_NullExactlyOnBadDenominator ==
    output # <<>> =>
        /\ input.fn \in BinaryRatios =>
              (output[1] = <<>> <=> BadDenominator(input.b))
        /\ input.fn = "calculateAllRatios" =>
              LET r == output[1]
                  d == input.financialData
              IN  /\ r.eps = <<>> <=> BadDenominator(d.totalShares)
                  /\ r.pbr = <<>> <=> BadDenominator(bookValuePerShare(d))
                  /\ r.roa = <<>> <=> BadDenominator(d.totalAssets)
                  /\ r.roe = <<>> <=> BadDenominator(d.totalEquity)
                  /\ r.evEbitda = <<>> <=> BadDenominator(d.ebitda)
                  /\ AtMostZero(d.totalShares) => r.pbr = <<>>
        /\ EPSExamples

\* C19: for integer and NaN arguments every ratio function returns a number
\* or null; EPS, PBR, ROA, ROE and EV/EBITDA return null exactly when the
\* denominator is 0 or NaN; operating margin, debt ratio and current ratio
\* return null exactly when the denominator is 0 or NaN or the numerator is
\* NaN; in calculateAllRatios EPS, ROA and ROE are null exactly when their
\* denominator is 0 or NaN, PBR exactly when totalShares is not greater than
\* 0 or totalEquity is 0 or NaN, and EV/EBITDA exactly when ebitda is not
\* greater than 0; EPS(1000, 0) is null and EPS(1000, 100) is 10.
C19_NullExactly ==
    output # <<>> =>
        /\ input.fn \in BinaryRatios =>
              /\ output[1] = <<>> <=>
                    \/ BadDenominator(input.b)
                    \/ input.fn \in NumeratorChecked /\ isNaN(input.a)
              /\ output[1] # <<>> =>
                    /\ Len(output[1]) = 1
                    /\ output[1][1].kind \in {"finite", "NaN"}
        /\ input.fn = "calculateAllRatios" =>
              LET r == output[1]
                  d == input.financialData
              IN  /\ r.eps = <<>> <=> BadDenominator(d.totalShares)
                  /\ r.pbr = <<>> <=>
                        \/ ~GreaterThanZero(d.totalShares)
                        \/ BadDenominator(d.totalEquity)
                  /\ r.roa = <<>> <=> BadDenominator(d.totalAssets)
                  /\ r.roe = <<>> <=> BadDenominator(d.totalEquity)
                  /\ r.evEbitda = <<>> <=> ~GreaterThanZero(d.ebitda)
                  /\ AtMostZero(d.totalShares) => r.pbr = <<>>
        /\ EPSExamples

\* C19 witness: calculateAllRatios returned for a negative share count and a
\* positive EBITDA: PBR is null, EPS and EV/EBITDA are numbers.
C19_Witness ==
    /\ output # <<>>
    /\ input.fn = "calculateAllRatios"
    /\ input.financialData.totalShares = Number(-2)
    /\ GreaterThanZero(input.financialData.ebitda)
    /\ output[1].pbr = <<>>
    /\ output[1].eps = << Number(-500) >>
    /\ output[1].evEbitda # <<>>

\* ====================================================================
\* Part 3d.  SearchService.calculateRelevanceScore
\*
\* A string is a sequence of one-character strings.
\* ====================================================================

MaxNameLen == 3
MaxCodeLen == 2
MaxQueryLen == 2

LowerCase == {"a", "b"}

\* String.prototype.toLowerCase over the letters in use
toLowerCase(text) ==
    [i \in 1..Len(text) |-> IF text[i] = "A" THEN "a" ELSE text[i]]

\* text.startsWith(query)
startsWith(text, query) ==
    /\ Len(query) <= Len(text)
    /\ SubSeq(text, 1, Len(query)) = query

\* text.includes(query)
includes(text, query) ==
    \E i \in 0..(Len(text) - Len(query)) :
        SubSeq(text, i + 1, i + Len(query)) = query

\* text.indexOf(char, textIndex): zero-based, -1 when absent
indexOf(text, char, textIndex) ==
    LET found == {i \in textIndex..(Len(text) - 1) : text[i + 1] = char}
    IN  IF found = {} THEN -1
        ELSE CHOOSE i \in found : \A j \in found : i <= j

\* the loop of fuzzyMatch from the position-th character of the query on
RECURSIVE fuzzyMatchFrom(_, _, _, _)
fuzzyMatchFrom(text, query, position, textIndex) ==
    IF position > Len(query) THEN TRUE
    ELSE LET foundIndex == indexOf(text, query[position], textIndex)
         IN  IF foundIndex = -1 THEN FALSE
             ELSE fuzzyMatchFrom(text, query, position + 1, foundIndex + 1)

fuzzyMatch(text, query) == fuzzyMatchFrom(text, query, 1, 0)

calculateRelevanceScore(company, query) ==
    LET name == toLowerCase(company.corpName)
        stockCode == toLowerCase(company.stockCode)
    IN  IF name = query THEN 100
        ELSE IF startsWith(name, query) THEN 80
        ELSE IF includes(name, query) THEN 60
        ELSE IF stockCode = query THEN 70
        ELSE IF startsWith(stockCode, query) THEN 50
        ELSE IF fuzzyMatch(name, query) THEN 40
        ELSE 0

\* --------------------------------------------------------------------
\* calculateRelevanceScore applied to bounded companies and queries; the
\* query is lower-case, as search passes it
\* --------------------------------------------------------------------

StringsUpTo(letters, n) == UNION {[1..k -> letters] : k \in 0..n}

ScoreInputs ==
    [company : [corpName : StringsUpTo(LowerCase \cup {"A"}, MaxNameLen),
                stockCode : StringsUpTo(LowerCase, MaxCodeLen)],
     query : StringsUpTo(LowerCase, MaxQueryLen)]

InitScore ==
    /\ InitAtRest
    /\ input \in ScoreInputs
    /\ output = <<>>

CalculateRelevanceScore ==
    /\ output = <<>>
    /\ output' = << calculateRelevanceScore(input.company, input.query) >>
    /\ UNCHANGED << serviceVars, clientVars, input >>

SpecScore == InitScore /\ [][CalculateRelevanceScore]_vars

\* --------------------------------------------------------------------
\* Claim C20
\* --------------------------------------------------------------------

\* the scores of the rules a company matches, and 0
MatchingScores(company, query) ==
    LET name == toLowerCase(company.corpName)
        stockCode == toLowerCase(company.stockCode)
    IN  {0} \cup (IF name = query THEN {100} ELSE {})
            \cup (IF startsWith(name, query) THEN {80} ELSE {})
            \cup (IF stockCode = query THEN {70} ELSE {})
            \cup (IF includes(name, query) THEN {60} ELSE {})
            \cup (IF startsWith(stockCode, query) THEN {50} ELSE {})
            \cup (IF fuzzyMatch(name, query) THEN {40} ELSE {})

Highest(scores) == CHOOSE s \in scores : \A t \in scores : t <= s

\* C20 as claimed: the score of a company is the highest score among the
\* rules it matches (exact name 100, name starts-with 80, ticker exact 70,
\* name contains 60, ticker starts-with 50, subsequence of the name 40,
\* none 0), so a company whose ticker equals the query scores at least 70.
C20_HighestMatchingRule ==
    output # <<>> =>
        /\ output[1] = Highest(MatchingScores(input.company, input.query))
        /\ toLowerCase(input.company.stockCode) = input.query => output[1] >= 70

\* ====================================================================
\* Part 3e.  SearchService.search
\*
\* The service is its two fields, companies and initialized; a query is a
\* string over letters and the space character.
\* ====================================================================

MaxIndex == 3
MaxLimit == 2

\* String.prototype.trim: leading and trailing white space removed
RECURSIVE trim(_)
trim(text) ==
    IF text = <<>> THEN text
    ELSE IF Head(text) = " " THEN trim(Tail(text))
    ELSE IF text[Len(text)] = " " THEN trim(SubSeq(text, 1, Len(text) - 1))
    ELSE text

\* the sort step with an item placed in front of the elements of equal score
RECURSIVE InsertByScoreUnstable(_, _)
InsertByScoreUnstable(sorted, item) ==
    IF sorted = <<>> THEN << item >>
    ELSE IF Head(sorted).score > item.score
         THEN << Head(sorted) >> \o InsertByScoreUnstable(Tail(sorted), item)
         ELSE << item >> \o sorted

\* one step of the stable sort by (a, b) => b.score - a.score: item goes
\* behind every element whose score is not lower
RECURSIVE InsertByScore(_, _)
InsertByScore(sorted, item) ==
    IF sorted = <<>> THEN << item >>
    ELSE IF Head(sorted).score >= item.score
         THEN << Head(sorted) >> \o InsertByScore(Tail(sorted), item)
         ELSE << item >> \o sorted

RECURSIVE sortByScore(_)
sortByScore(items) ==
    IF items = <<>> THEN <<>>
    ELSE InsertByScore(sortByScore(SubSeq(items, 1, Len(items) - 1)),
                       items[Len(items)])

\* Array.prototype.slice(0, limit) for limit >= 0
slice(items, limit) ==
    SubSeq(items, 1, IF limit < Len(items) THEN limit ELSE Len(items))

search(service, query, limit) ==
    IF ~service.initialized \/ query = <<>> \/ Len(query) < 2 THEN <<>>
    ELSE LET normalizedQuery == trim(toLowerCase(query))
             all == [i \in 1..Len(service.companies) |->
                        [company |-> service.companies[i],
                         score |-> calculateRelevanceScore(service.companies[i],
                                                           normalizedQuery)]]
             scored == slice(sortByScore(SelectSeq(all, LAMBDA item : item.score > 0)),
                             limit)
         IN  [i \in 1..Len(scored) |-> scored[i].company]

\* --------------------------------------------------------------------
\* search applied to bounded services, queries and limits
\* --------------------------------------------------------------------

Registry ==
    {[corpCode |-> 1, corpName |-> << "a", "b" >>, stockCode |-> << "b" >>],
     [corpCode |-> 2, corpName |-> << "A", "b" >>, stockCode |-> << "a", "b" >>],
     [corpCode |-> 3, corpName |-> << "b", "a", "b" >>, stockCode |-> << "a" >>],
     [corpCode |-> 4, corpName |-> << "b", "a" >>, stockCode |-> << "a", "b" >>],
     [corpCode |-> 5, corpName |-> << "a", "b", "b" >>, stockCode |-> << "b", "b" >>]}

\* the lists initializeIndex may have been given: registry records, each once
Indexes ==
    {s \in StringsUpTo(Registry, MaxIndex) :
        \A i, j \in 1..Len(s) : i # j => s[i] # s[j]}

\* the service as constructed or cleared, or after initializeIndex
Services ==
    {[companies |-> <<>>, initialized |-> FALSE]}
    \cup {[companies |-> s, initialized |-> TRUE] : s \in Indexes}

SearchInputs ==
    [service : Services,
     query : StringsUpTo(LowerCase \cup {"A", " "}, MaxNameLen),
     limit : 0..MaxLimit]

InitSearch ==
    /\ InitAtRest
    /\ input \in SearchInputs
    /\ output = <<>>

Search ==
    /\ output = <<>>
    /\ output' = << search(input.service, input.query, input.limit) >>
    /\ UNCHANGED << serviceVars, clientVars, input >>

SpecSearch == InitSearch /\ [][Search]_vars

\* --------------------------------------------------------------------
\* Claims C21, C22
\* --------------------------------------------------------------------

\* the score search gives a company for the query of the call
SearchScore(company) ==
    calculateRelevanceScore(company, trim(toLowerCase(input.query)))

\* the place of a company in the index of the call (0: not in it)
RegistryOrder(company) ==
    LET at == {i \in 1..Len(input.service.companies) :
                  input.service.companies[i] = company}
    IN  IF at = {} THEN 0 ELSE CHOOSE i \in at : TRUE

ReturnedRecords == {output[1][i] : i \in 1..Len(output[1])}

LeftOut ==
    {input.service.companies[i] : i \in 1..Len(input.service.companies)}
        \ ReturnedRecords

\* C21 as claimed: a query whose trimmed length is less than 2 gets an empty
\* result whatever the index holds, also when its raw length is 2 or more.
C21_ShortQueryEmpty ==
    (output # <<>> /\ Len(trim(input.query)) < 2) => output[1] = <<>>

\* C22: search returns at most limit records, each a record of the index
\* with a score above 0, in order of non-increasing score with records of
\* equal score in registry order; no record left out scores higher than a
\* record returned, and an exact name match precedes a contains-match.
C22_RankedResult ==
    output # <<>> =>
        LET out == output[1] IN
        /\ Len(out) <= input.limit
        /\ \A i \in 1..Len(out) :
              /\ RegistryOrder(out[i]) > 0
              /\ SearchScore(out[i]) > 0
        /\ \A i, j \in 1..Len(out) :
              i < j =>
                  \/ SearchScore(out[i]) > SearchScore(out[j])
                  \/ /\ SearchScore(out[i]) = SearchScore(out[j])
                     /\ RegistryOrder(out[i]) < RegistryOrder(out[j])
        /\ \A c \in LeftOut : \A r \in ReturnedRecords : SearchScore(c) <= SearchScore(r)
        /\ \A i, j \in 1..Len(out) :
              (SearchScore(out[i]) = 100 /\ SearchScore(out[j]) = 60) => i < j

\* C22 witness: of three matching records the two exact name matches came
\* back in registry order and the contains-match, first in the index, was
\* cut off by the limit.
C22_Witness ==
    /\ output # <<>>
    /\ Len(input.service.companies) = 3
    /\ input.limit = 2
    /\ SearchScore(input.service.companies[1]) = 60
    /\ SearchScore(input.service.companies[2]) = 100
    /\ SearchScore(input.service.companies[3]) = 100
    /\ output[1] = << input.service.companies[2], input.service.companies[3] >>

\* ====================================================================
\* Part 4.  dart-client.ts: withRetry around DARTClient.request, and the
\* company-details route that calls it through getCompanyInfo
\*
\* dart is the withRetry call in progress: the loop variable attempt, the
\* number of times the operation has run, lastError, the reply the last run
\* received, and the delays slept so far.  An error is a record of its
\* class, statusCode and message; null is <<>>.
\* ====================================================================

MaxRetries == 2

\* what the registry can do to one HTTP request: fail on the network, or
\* reply with a status and, under status 200, a body whose status field is
\* '000' (data), '013' (no such data), or that is not JSON
Replies ==
    {[http |-> 0, body |-> "unreachable"]}
    \cup {[http |-> s, body |-> "none"] : s \in {302, 404, 429, 500, 503}}
    \cup {[http |-> 200, body |-> b] : b \in {"000", "013", "malformed"}}

DARTAPIError(message, statusCode) ==
    [class |-> "DARTAPIError", statusCode |-> statusCode, message |-> message]

\* an error of a class other than DARTAPIError, thrown by fetch or json()
OtherError(class) ==
    [class |-> class, statusCode |-> Undefined, message |-> class]

\* DARTClient.request: <<>> and the data, or the error thrown and <<>>
request(reply) ==
    IF reply.http = 0
    THEN [error |-> << OtherError("TypeError") >>, data |-> <<>>]
    ELSE IF reply.http >= 300 /\ reply.http < 400
    THEN [error |-> << DARTAPIError("redirected", reply.http) >>, data |-> <<>>]
    ELSE IF ~(reply.http >= 200 /\ reply.http < 300)
    THEN [error |-> << DARTAPIError("request failed", reply.http) >>, data |-> <<>>]
    ELSE IF reply.body = "malformed"
    THEN [error |-> << OtherError("SyntaxError") >>, data |-> <<>>]
    ELSE IF reply.body # "000"
    THEN [error |-> << DARTAPIError("data.message", 400) >>, data |-> <<>>]
    ELSE [error |-> <<>>, data |-> << "data" >>]

\* the test of line 50 answering FALSE for every error
IsClientErrorNever(error) == FALSE

\* error instanceof DARTAPIError && statusCode >= 400 && statusCode < 500
IsClientError(error) ==
    /\ error.class = "DARTAPIError"
    /\ error.statusCode >= 400
    /\ error.statusCode < 500

RECURSIVE Pow2(_)
Pow2(n) == IF n = 0 THEN 1 ELSE 2 * Pow2(n - 1)

DEFAULT_RETRY_CONFIG == [maxRetries |-> 1, baseDelay |-> 500]

\* handleError: an Error that is not an AppError
handleError(error) ==
    [error |-> "INTERNAL_ERROR", message |-> "INTERNAL_ERROR",
     code |-> error.message]

\* c.json(errorResponse, 500) of line 83
ErrorOutcome(error) == [status |-> 500, body |-> handleError(error)]

\* withRetry(operation, config) is called, the loop starts at attempt 0 and
\* the operation is awaiting the registry
WithRetry ==
    /\ dart.pc = "idle"
    /\ input # <<>>
    /\ dart' = [NoCall EXCEPT !.pc = "operation"]
    /\ UNCHANGED << serviceVars, pureVars >>

\* lines 47-57: the operation settles; its result is returned, or its error
\* is caught: rethrown when it is a client error, followed by a sleep when
\* attempts remain, and by the end of the loop and line 59 when none does
OperationSettles(reply) ==
    /\ dart.pc = "operation"
    /\ LET settled == request(reply)
           ran == [dart EXCEPT !.attempts = @ + 1, !.lastReply = << reply >>]
       IN  IF settled.error = <<>>
           THEN dart' = [ran EXCEPT !.pc = "returned", !.returned = settled.data]
           ELSE LET caught == [ran EXCEPT !.lastError = settled.error]
                IN  IF IsClientError(settled.error[1])
                    THEN dart' = [caught EXCEPT !.pc = "thrown"]
                    ELSE IF dart.attempt < input.maxRetries
                    THEN dart' = [caught EXCEPT
                                     !.pc = "sleep",
                                     !.delays = Append(@, input.baseDelay
                                                            * Pow2(dart.attempt))]
                    ELSE dart' = [caught EXCEPT !.pc = "thrown",
                                                !.attempt = @ + 1]
    /\ UNCHANGED << serviceVars, pureVars >>

\* the timer of line 55 fires: attempt++ and the operation is called again
SleepReturns ==
    /\ dart.pc = "sleep"
    /\ dart' = [dart EXCEPT !.pc = "operation", !.attempt = @ + 1]
    /\ UNCHANGED << serviceVars, pureVars >>

\* api.ts lines 69-84 after a cache miss, getCompanyInfo having been called
\* with the default configuration: the response of line 80, or of line 83
CompanyResponds ==
    /\ dart.pc \in {"returned", "thrown"}
    /\ input = DEFAULT_RETRY_CONFIG
    /\ output = <<>>
    /\ output' = << IF dart.pc = "returned"
                    THEN [status |-> 200, body |-> dart.returned[1]]
                    ELSE ErrorOutcome(dart.lastError[1]) >>
    /\ UNCHANGED << serviceVars, clientVars, input >>

InitClient ==
    /\ InitAtRest
    /\ input \in [maxRetries : 0..MaxRetries, baseDelay : {0, 500}]
    /\ output = <<>>

NextClient ==
    \/ WithRetry
    \/ \E reply \in Replies : OperationSettles(reply)
    \/ SleepReturns
    \/ CompanyResponds

SpecClient == InitClient /\ [][NextClient]_vars

\* an operation that was called settles and a timer that was set fires
FairSpecClient == SpecClient /\ WF_vars(NextClient)

\* --------------------------------------------------------------------
\* Claims C23, C24, C25
\* --------------------------------------------------------------------

Settled == dart.pc \in {"returned", "thrown"}

\* the outcome of the run of the operation that received the last reply
LastRun == request(dart.lastReply[1])

\* an error the claim calls a 4xx-class DARTAPIError
Is4xxDARTAPIError(e) ==
    e.class = "DARTAPIError" /\ e.statusCode \in 400..499

\* the states of a withRetry call as the claim describes them
RetryDiscipline ==
    /\ dart.attempts <= input.maxRetries + 1
    /\ \A i \in 1..Len(dart.delays) :
          dart.delays[i] = input.baseDelay * Pow2(i - 1)
    /\ dart.pc = "operation" => Len(dart.delays) = dart.attempts
    /\ dart.pc = "sleep" => Len(dart.delays) = dart.attempts
    /\ Settled => Len(dart.delays) = dart.attempts - 1
    /\ (dart.pc \in {"operation", "sleep"} /\ dart.attempts > 0) =>
          /\ LastRun.error # <<>>
          /\ ~Is4xxDARTAPIError(LastRun.error[1])
          /\ dart.attempts <= input.maxRetries
    /\ dart.pc = "returned" =>
          /\ LastRun.error = <<>>
          /\ dart.returned = LastRun.data
    /\ dart.pc = "thrown" =>
          /\ LastRun.error # <<>>
          /\ dart.lastError = LastRun.error
          /\ \/ Is4xxDARTAPIError(LastRun.error[1])
             \/ dart.attempts = input.maxRetries + 1

\* C23: withRetry runs the operation at most maxRetries + 1 times; a 4xx
\* DARTAPIError ends it at once with that error rethrown; any other failure
\* is followed, while attempts remain, by a delay of baseDelay * 2^attempt
\* and another attempt; when every attempt has failed the last error is
\* thrown; a success returns its result; after it has returned or thrown
\* nothing more is attempted; and every call that was started returns or
\* throws.
C23_BoundedRetry ==
    /\ []RetryDiscipline
    /\ [][Settled => dart' = dart]_vars
    /\ (dart.pc = "operation") ~> Settled

\* C23 witness: with maxRetries 2 three attempts failed, 500 and 1000 ms
\* were slept in between, and the error of the third was thrown.
C23_Witness ==
    /\ dart.pc = "thrown"
    /\ input = [maxRetries |-> 2, baseDelay |-> 500]
    /\ dart.attempts = 3
    /\ dart.delays = << 500, 1000 >>
    /\ dart.lastError = << DARTAPIError("request failed", 503) >>

\* the registry replied, with a failure status or with a body that is not JSON
IsUpstreamDataError(reply) ==
    reply.http = 200 /\ reply.body # "000"

\* C24 as claimed: after the registry has replied with a failure status or
\* a malformed payload nothing more is attempted: the error of that run is
\* thrown to the caller, with no delay and no further attempt.
C24_DataErrorNotRetried ==
    (dart.lastReply # <<>> /\ IsUpstreamDataError(dart.lastReply[1])) =>
        /\ dart.pc = "thrown"
        /\ dart.lastError = LastRun.error

\* what distinguishes one failure response from another: status and error code
StatusAndCode(response) ==
    [status |-> response.status, error |-> response.body.error]

\* the replies of a registry that is down or unreachable
Outages == {reply \in Replies : reply.http \in {0, 500, 503}}

\* C25 as claimed: the response to a request for a company the registry
\* does not know differs in status and error code from the response a
\* transient outage produces, which is of the 500 class.
C25_NotFoundDistinct ==
    (output # <<>> /\ dart.lastReply = << [http |-> 200, body |-> "013"] >>) =>
        \A reply \in Outages :
            LET outage == ErrorOutcome(request(reply).error[1])
            IN  /\ outage.status >= 500
                /\ StatusAndCode(output[1]) # StatusAndCode(outage)

\* --------------------------------------------------------------------
\* Claim C26
\* --------------------------------------------------------------------

\* a tier holds an entry for the key that has not expired
HoldsLive(tier, k) == MapHas(tier, k) /\ ~isExpired(tier[k])

\* C26 as claimed: getWithSWR reads through both tiers like get.  A call
\* that finds an in-process entry while either tier holds a non-expired
\* entry for the key, and a call whose read of the durable tier finds a
\* non-expired entry there, goes on to serve cached data and does not wait
\* on fetch; this includes the call that finds an expired in-process entry
\* while the durable tier holds a live one.
C26_ReadsThroughBothTiers ==
    [][\A c \in Calls :
          (op'[c] = "getWithSWR" /\ pc'[c] = "decide" /\ ~result'[c].kvFailed) =>
              /\ (/\ pc[c] = "idle"
                  /\ \/ HoldsLive(memoryCache, args'[c].key)
                     \/ HoldsLive(kvStore, args'[c].key))
                     => SWRServes(entry'[c], args'[c])
              /\ (pc[c] = "getEntry_kv" /\ HoldsLive(kvStore, args[c].key))
                     => SWRServes(entry'[c], args'[c])]_vars

\* --------------------------------------------------------------------
\* Claim C27
\* --------------------------------------------------------------------

\* the revalidations in flight for key k
InFlight(k) == {c \in Calls : bg[c] \in {"fetching", "set_put"} /\ args[c].key = k}

\* the step in which the fetcher of a revalidation resolves puts the fetched
\* value, stamped with the time of the step, into the cache: status fresh
FetchedValueStored ==
    \A c \in Calls :
        (bg[c] = "fetching" /\ bg'[c] \in {"set_put", "done"}) =>
            LET k == args[c].key IN
            /\ MapHas(memoryCache', k)
            /\ memoryCache'[k].data = FetchValue
            /\ memoryCache'[k].timestamp = now'
            /\ CacheStatusAt(<< memoryCache'[k] >>, now') = "fresh"
            /\ ~(now' - memoryCache'[k].timestamp
                     > SWRStaleTime(memoryCache'[k], args[c]))

DeleteCompleted(d) == op[d] = "delete" /\ pc[d] = "done"

\* no set for the key of the delete d was started after it
NoSetAfter(d) ==
    \A e \in Calls :
        (e > d /\ op[e] = "set") => args[e].key # args[d].key

\* call c, a get or a getCacheStatus for the key of d, has answered
ReadAnswered(c, d) ==
    /\ op[c] \in {"get", "getCacheStatus"}
    /\ pc[c] = "done"
    /\ args[c].key = args[d].key

\* the answer of call c is "no entry"
AnsweredMissing(c) ==
    IF op[c] = "get" THEN result[c].data = <<>>
                     ELSE result[c].cacheStatus = "missing"

\* a caller that awaits each call before it makes the next one
Awaited == \A c \in Calls : pc[c] \in {"idle", "done"}

NextAwaited ==
    \/ Environment
    \/ Awaited /\ \E c \in Calls, k \in Keys : Get(c, k)
    \/ Awaited /\ \E c \in Calls, k \in Keys, t \in TtlSeconds :
                     Set(c, k, RouteValue, t, Undefined)
    \/ Awaited /\ \E c \in Calls, k \in Keys : Delete(c, k)
    \/ Awaited /\ \E c \in Calls, k \in Keys : GetCacheStatus(c, k)
    \/ \E c \in Calls : GetCacheStatusReturn(c)
    \/ \E c \in Calls : GetKvReturn(c)
    \/ \E c \in Calls : GetKvFail(c)
    \/ \E c \in Calls : DeleteKvReturn(c)
    \/ \E c \in Calls : DeleteKvFail(c)
    \/ \E c \in Calls : GetEntryKvReturn(c)
    \/ \E c \in Calls : GetEntryKvFail(c)
    \/ \E c \in Calls : SetPutReturn(c)
    \/ \E c \in Calls : SetPutFail(c)

SpecAwaited == InitDurable /\ [][NextAwaited]_vars

\* C28 as claimed: once delete(key) has completed, a get or getCacheStatus
\* for that key that is called afterwards, no set for the key having been
\* started since, answers missing -- also when the delete of the durable
\* store failed and the failure was swallowed.
C28_DeletedIsMissing ==
    \A c, d \in Calls :
        (d < c /\ DeleteCompleted(d) /\ ReadAnswered(c, d) /\ NoSetAfter(d))
            => AnsweredMissing(c)

\* --------------------------------------------------------------------
\* Claim C29
\* --------------------------------------------------------------------

\* every method of the manager, with any SWROptions passed to getWithSWR
SpecAnyOptions == Init /\ [][Next]_vars

\* getWithSWR is about to return the cached data with isStale = true
ServesStale(c) == SWRServes(entry[c], args[c]) /\ SWRIsStale(entry[c][1], args[c])

\* the status getCacheStatus returns for the same entry at the same time
StatusOfSameEntry(c) == CacheStatusAt(entry[c], now)

\* getWithSWR fetches synchronously exactly when the status is expired or
\* missing
FetchIffExpiredOrMissing ==
    \A c \in Calls : AtSWR(c) =>
        (StatusOfSameEntry(c) \in {"expired", "missing"}
            <=> ~SWRServes(entry[c], args[c]))

\* C29 as claimed: getCacheStatus and getWithSWR agree on every entry at
\* every time, whatever the options passed to getWithSWR and whether or not
\* the entry was written with a staleTime: the status is stale exactly when
\* getWithSWR returns the cached data with isStale = true, and expired or
\* missing exactly when getWithSWR fetches synchronously.
C29_StatusAgreesWithSWR ==
    /\ \A c \in Calls : AtSWR(c) => (StatusOfSameEntry(c) = "stale" <=> ServesStale(c))
    /\ FetchIffExpiredOrMissing

(***************************************************************************)
(* getLast6Quarters(currentDate)                                           *)
(* financial-processor.ts lines 20-48.  A Date is its getFullYear() and    *)
(* its getMonth() (0 is January).                                          *)
(***************************************************************************)
\* the % of JavaScript: the remainder takes the sign of the dividend
Remainder(a, b) == IF a >= 0 THEN a % b ELSE -((-a) % b)

\* lines 26-35: the most recent completed quarter
currentQuarter(month) ==
    IF month <= 3 THEN 4
    ELSE IF month <= 6 THEN 1
    ELSE IF month <= 9 THEN 2
    ELSE 3

\* lines 40-45: the loop, each period put in front of the ones made before
RECURSIVE PrependQuarters(_, _, _, _)
PrependQuarters(i, quarters, quarterOfNow, currentYear) ==
    IF i < 6
    THEN LET quarterNum == Remainder(quarterOfNow - i - 1 + 4, 4) + 1
             quarterYear == currentYear - ((i + (4 - quarterOfNow)) \div 4)
         IN  PrependQuarters(i + 1,
                             << createQuarterPeriod(quarterYear, quarterNum) >> \o quarters,
                             quarterOfNow, currentYear)
    ELSE quarters

getLast6Quarters(currentDate) ==
    LET year == currentDate.fullYear
        month == currentDate.month + 1
        currentYear == IF month <= 3 THEN year - 1 ELSE year
    IN  PrependQuarters(0, <<>>, currentQuarter(month), currentYear)

CurrentDates == [fullYear : 2020..2024, month : 0..11]

InitQuarters ==
    /\ InitAtRest
    /\ input \in CurrentDates
    /\ output = <<>>

GetLast6Quarters ==
    /\ output = <<>>
    /\ output' = << getLast6Quarters(input) >>
    /\ UNCHANGED << serviceVars, clientVars, input >>

SpecQuarters == InitQuarters /\ [][GetLast6Quarters]_vars

\* --------------------------------------------------------------------
\* Claim C30
\* --------------------------------------------------------------------

\* the period that follows period p
SuccessorOf(p) ==
    IF p.quarter = "Q4"
    THEN createQuarterPeriod(p.year + 1, 1)
    ELSE createQuarterPeriod(p.year, quarterOrder[p.quarter] + 1)

\* the most recent quarter completed before the month (1..12) of a year
LastCompleted(year, month) ==
    IF month <= 3 THEN createQuarterPeriod(year - 1, 4)
    ELSE createQuarterPeriod(year, (month - 1) \div 3)

\* C30 as claimed: for a current date in any month, getLast6Quarters
\* returns exactly 6 periods, each of a quarter Q1..Q4, each the immediate
\* successor of the one before it, the last one the most recent completed
\* quarter.
C30_SixConsecutiveQuarters ==
    output # <<>> =>
        LET periods == output[1] IN
        /\ Len(periods) = 6
        /\ \A j \in 1..6 : periods[j].quarter \in {"Q1", "Q2", "Q3", "Q4"}
        /\ \A j \in 1..5 : periods[j + 1] = SuccessorOf(periods[j])
        /\ periods[6] = LastCompleted(input.fullYear, input.month + 1)

====
